---------------------------- MODULE Spec2Model ----------------------------
(***************************************************************************)
(* State-machine model of the your-spotify-mcp tool handlers               *)
(* (src/src/tools), the analytics service layer                            *)
(* (src/src/services/your-spotify-service.ts, first revision in the file)  *)
(* and the rate-limited analytics client                                   *)
(* (src/src/lib/your-spotify-client.ts).                                   *)
(*                                                                         *)
(* One tool invocation is followed from the handler's synchronous prefix   *)
(* (validation, first client.get calls) through every await: each request  *)
(* is queued in the client's limiter, sent when no other request is in     *)
(* flight, and answered by the upstream with a payload or a failure chosen *)
(* nondeterministically.                                                   *)
(*                                                                         *)
(* JSON values: an optional field is <<>> when absent and <<v>> when       *)
(* present.  A date string YYYY-MM-DD is the tuple <<y, m, d>>; only       *)
(* valid calendar dates are drawn.  Strings that the code inspects         *)
(* character by character are sequences of one-character strings.          *)
(***************************************************************************)
EXTENDS Integers, Sequences, FiniteSets, TLC

VARIABLES
    pc,        \* "idle" before the call, "await" while suspended, "done"
    tool,      \* name of the tool being invoked
    input,     \* the validated input the handler received
    step,      \* which await of the service method the invocation is at
    queue,     \* limiter queue: requests scheduled and not yet sent
    inflight,  \* the request sent and not yet answered (at most one)
    sent,      \* every request sent to the analytics upstream, in order
    replies,   \* payloads received so far by this invocation
    outcome,   \* "none" | "success" | "error"
    result,    \* the success payload (<<>> until there is one)
    thrown,    \* the value caught at the tool boundary (<<>> if none)
    failure,   \* the failure payload (<<>> until there is one)
    server,    \* startup: environment, streaming client, registered tools
    spotify,   \* fields of the streaming-platform client
    calls,     \* calls of the streaming-platform client, by call id
    concurrent \* analytics requests outstanding per concurrent invocation

vars == <<pc, tool, input, step, queue, inflight, sent, replies, outcome, result,
          thrown, failure, server, spotify, calls, concurrent>>

-----------------------------------------------------------------------------
(* Bounds of the model                                                     *)

MaxIndex == 5        \* largest zero-based index the rank endpoint returns
MaxWindow == 5       \* largest neighbourhood window of the rank endpoint
MaxCount == 2        \* largest play count in an upstream item
MaxItems == 3        \* longest array an upstream list endpoint returns
MaxLimit == 3        \* largest limit a caller asks for
MinYear == 2023      \* first year of the dates given to create_custom_wrapped
MaxYear == 2025      \* last year of the dates given to create_custom_wrapped
MaxPlays == 3        \* largest grand total (total_count) upstream reports

-----------------------------------------------------------------------------
(* JavaScript value helpers                                                *)

Undefined == <<>>
Some(v) == <<v>>

\* x || 0 for an optional number
OrZero(opt) == IF opt = Undefined THEN 0 ELSE opt[1]

\* x || d for an optional string: undefined and "" are both falsy
OrDefault(opt, d) == IF opt = Undefined \/ opt = Some("") THEN d ELSE opt[1]

\* Optional JSON fields and JSON arrays of at most n elements
Opt(S) == {Undefined} \cup {Some(v) : v \in S}

RECURSIVE SeqsUpTo(_, _)
SeqsUpTo(S, n) ==
    IF n = 0 THEN {<<>>}
    ELSE LET shorter == SeqsUpTo(S, n - 1)
         IN  shorter \cup {Append(s, x) : s \in {t \in shorter : Len(t) = n - 1}, x \in S}

Max(a, b) == IF a >= b THEN a ELSE b
Min(a, b) == IF a <= b THEN a ELSE b

\* Math.round(n / d) for integers n and d > 0: floor(n/d + 1/2)
RoundDiv(n, d) == (2 * n + d) \div (2 * d)

\* A JavaScript number that a division produced: finite, or one of the
\* non-finite results of a division by zero
Finite(v) == [kind |-> "finite", value |-> v]
NaN == [kind |-> "NaN", value |-> 0]
Infinity == [kind |-> "Infinity", value |-> 0]
NegInfinity == [kind |-> "-Infinity", value |-> 0]

\* Math.round((n / d) * 100) for integers n and d >= 0
RoundPercent(n, d) ==
    IF d = 0
    THEN (IF n = 0 THEN NaN ELSE IF n > 0 THEN Infinity ELSE NegInfinity)
    ELSE Finite(RoundDiv(n * 100, d))

-----------------------------------------------------------------------------
(* Dates                                                                   *)

\* Days from 1970-01-01 to the civil date <<y, m, d>> (Date.UTC)
DaysFromCivil(date) ==
    LET y == date[1]
        m == date[2]
        d == date[3]
        yy == IF m <= 2 THEN y - 1 ELSE y
        era == yy \div 400
        yoe == yy - era * 400
        mp == (m + 9) % 12
        doy == (153 * mp + 2) \div 5 + d - 1
        doe == yoe * 365 + yoe \div 4 - yoe \div 100 + doy
    IN  era * 146097 + doe - 719468

HoursPerDay == 24

\* new Date("YYYY-MM-DD").getTime(): UTC midnight of the date.  The unit
\* here is the hour (getTime() / 3600000) to stay within TLC's integers.
GetTime(date) == DaysFromCivil(date) * HoursPerDay

\* if (input.start_date && input.end_date) { if (start > end) throw }
StartAfterEnd(start, end) ==
    /\ start # Undefined
    /\ end # Undefined
    /\ GetTime(start) > GetTime(end)

IsLeap(y) == (y % 4 = 0 /\ y % 100 # 0) \/ y % 400 = 0

DaysInMonth(y, m) ==
    IF m = 2 THEN (IF IsLeap(y) THEN 29 ELSE 28)
    ELSE IF m \in {4, 6, 9, 11} THEN 30 ELSE 31

-----------------------------------------------------------------------------
(* The analytics client: limiter.schedule with maxConcurrent 1             *)

\* Variant: every request joins the limiter queue twice
ScheduleTwice(q, reqs) == q \o reqs \o reqs

\* client.get(endpoint, params): the job joins the limiter queue
Schedule(q, reqs) == q \o reqs

Request(ep, params, idx) == [ep |-> ep, params |-> params, idx |-> idx]

TwoConcurrent == 1 + 1

\* maxConcurrent of the analytics limiter
AnalyticsMaxConcurrent == 1

\* The limiter starts the next queued job when fewer than maxConcurrent run.
LimiterDispatch ==
    /\ Len(inflight) < AnalyticsMaxConcurrent
    /\ queue # <<>>
    /\ inflight' = Append(inflight, Head(queue))
    /\ queue' = Tail(queue)
    /\ sent' = Append(sent, Head(queue))
    /\ UNCHANGED <<server, spotify, calls, concurrent, pc, tool, input, step, replies, outcome, result, thrown, failure>>

\* A thrown value is an Error instance or a plain object; a message is a
\* sequence of text pieces.
ErrorInstance(message) == [instanceofError |-> TRUE, message |-> message, status |-> 0]

PlainObject(message, status) ==
    [instanceofError |-> FALSE, message |-> message, status |-> status]

\* Statuses with a friendly message in normalizeError
MappedStatuses == {400, 401, 403, 404, 429, 500, 502, 503}

ErrorMessages(status) ==
    CASE status = 400 -> "Invalid request parameters"
      [] status = 401 -> "Authentication failed - check your Your Spotify token"
      [] status = 403 -> "Access denied - insufficient permissions"
      [] status = 404 -> "Resource not found"
      [] status = 429 -> "Rate limit exceeded - please wait before retrying"
      [] status = 500 -> "Your Spotify server error"
      [] status = 502 -> "Your Spotify server is temporarily unavailable"
      [] status = 503 -> "Your Spotify service is temporarily unavailable"

\* The message the upstream put in the body of a failed response
UpstreamMessage == "upstream message"

\* normalizeError(error) for an axios error whose response has this status;
\* NoResponse stands for an error without a response.
NoResponse == 0

NormalizedStatus(responseStatus) ==
    IF responseStatus = NoResponse THEN 500 ELSE responseStatus

NormalizeError(responseStatus) ==
    LET status == NormalizedStatus(responseStatus)
    IN  PlainObject(IF status \in MappedStatuses
                    THEN <<ErrorMessages(status)>>
                    ELSE <<UpstreamMessage>>,
                    status)

\* catch (error) at the tool boundary: the text of the failure payload
CaughtMessage(error) ==
    IF error.instanceofError THEN error.message ELSE <<"Unknown error">>

ToolBoundaryUncaught(error) == [outcome |-> "escaped", payload |-> <<>>]

ToolBoundary(error) ==
    [outcome |-> "error",
     payload |-> [isError |-> TRUE, text |-> <<"Error: ">> \o CaughtMessage(error)]]

\* A value thrown inside the handler or the service reaches the tool boundary.
Throw(error) ==
    /\ pc' = "done"
    /\ outcome' = ToolBoundary(error).outcome
    /\ result' = <<>>
    /\ thrown' = error
    /\ failure' = ToolBoundary(error).payload

\* The handler or the service throws new Error(...) on an input it rejects.
Fail == Throw(ErrorInstance(<<"invalid input">>))

\* Statuses a failed upstream response may carry
FailureStatuses == {NoResponse, 401, 404, 418, 429, 500}

\* client.get rejects with normalizeError(error)
UpstreamFail == \E status \in FailureStatuses : Throw(NormalizeError(status))

Succeed(payload) ==
    /\ pc' = "done"
    /\ outcome' = "success"
    /\ result' = payload
    /\ thrown' = <<>>
    /\ failure' = <<>>

-----------------------------------------------------------------------------
(* get_artist_rank / get_track_rank                                        *)

RankTools == {"get_artist_rank", "get_track_rank"}

UriPrefix(t) == IF t = "get_artist_rank" THEN "spotify:artist:" ELSE "spotify:track:"

RankEndpoint(t) == IF t = "get_artist_rank" THEN "/artist/:id/rank" ELSE "/track/:id/rank"
StatsEndpoint(t) == IF t = "get_artist_rank" THEN "/artist/:id/stats" ELSE "/track/:id/stats"

\* if (id.startsWith(prefix)) id = id.replace(prefix, '')
\* An id is a sequence of tokens; the URI prefix is one token.
StripUriPrefix(id, prefix) ==
    IF Len(id) > 0 /\ id[1] = prefix THEN Tail(id) ELSE id

\* apiParams of getArtistRank / getTrackRank: start and end only when given
RankParams(id, start, end) == [id |-> id, start |-> start, end |-> end]

\* const rank = (rawData.index || 0) + 1
RankOf(rawData) == OrZero(rawData.index) + 1

\* const resultsLength = rawData.results?.length || 0
ResultsLength(rawData) ==
    IF rawData.results = Undefined THEN 0 ELSE Len(rawData.results[1])

\* Variant: the population is the window length alone
RankTotalWindowOnly(rawData) == ResultsLength(rawData)

\* const total = Math.max(resultsLength, rank)
RankTotal(rawData) == Max(ResultsLength(rawData), RankOf(rawData))

\* rawData.results?.find(r => r.id === id)?.count || 0
RankPlayCount(rawData, id) ==
    IF rawData.results = Undefined THEN 0
    ELSE LET rs == rawData.results[1]
             hits == {i \in 1..Len(rs) : rs[i].id = Some(id)}
         IN  IF hits = {} THEN 0
             ELSE OrZero(rs[CHOOSE i \in hits : \A j \in hits : i <= j].count)

\* Math.round((1 - rank / total) * 100)
Percentile(rank, total) ==
    IF total = 0
    THEN (IF rank = 0 THEN NaN ELSE IF rank > 0 THEN NegInfinity ELSE Infinity)
    ELSE Finite(RoundDiv((total - rank) * 100, total))

RankInvoke(t, rawId, start, end) ==
    /\ pc = "idle"
    /\ LET id == StripUriPrefix(rawId, UriPrefix(t))
       IN  /\ tool' = t
           /\ input' = [id |-> id, start_date |-> start, end_date |-> end]
           /\ pc' = "await"
           /\ step' = 1
           /\ queue' = Schedule(queue,
                  <<Request(RankEndpoint(t), RankParams(id, start, end), 1)>>)
    /\ UNCHANGED <<server, spotify, calls, concurrent, inflight, sent, replies, outcome, result, thrown, failure>>

RankResult(rawData, info) ==
    [ id |-> input.id,
      name |-> OrDefault(info.name, "Unknown"),
      rank |-> RankOf(rawData),
      total |-> RankTotal(rawData),
      percentile |-> Percentile(RankOf(rawData), RankTotal(rawData)),
      play_count |-> RankPlayCount(rawData, input.id) ]

\* The upstream answers the request in flight; the service method resumes.
RankReply(ok, data) ==
    /\ pc = "await"
    /\ tool \in RankTools
    /\ inflight # <<>>
    /\ inflight' = <<>>
    /\ IF ~ok
       THEN /\ UpstreamFail
            /\ UNCHANGED <<queue, replies, step>>
       ELSE IF step = 1
       THEN /\ "index" \in DOMAIN data
            /\ replies' = Append(replies, data)
            /\ step' = 2
            /\ queue' = Schedule(queue,
                   <<Request(StatsEndpoint(tool), [id |-> input.id], 2)>>)
            /\ UNCHANGED <<pc, outcome, result, thrown, failure>>
       ELSE /\ "name" \in DOMAIN data
            /\ replies' = Append(replies, data)
            /\ Succeed(RankResult(replies[1], data))
            /\ UNCHANGED <<queue, step>>
    /\ UNCHANGED <<server, spotify, calls, concurrent, tool, input, sent>>

-----------------------------------------------------------------------------
(* get_top_tracks / get_top_artists                                        *)

TopTools == {"get_top_tracks", "get_top_artists"}

TopEndpoint(t) ==
    IF t = "get_top_tracks" THEN "/spotify/top/songs" ELSE "/spotify/top/artists"

DefaultStart == <<2000, 1, 1>>
DefaultLimit == 10

\* params.start_date || '2000-01-01'
StartOrDefault(start) == IF start = Undefined THEN DefaultStart ELSE start

\* params.limit || 10
LimitOrDefault(limit) == IF limit = 0 THEN DefaultLimit ELSE limit

\* apiParams of getTopTracks / getTopArtists
TopParams(start, end, limit) ==
    [start |-> StartOrDefault(start), end |-> end,
     nb |-> LimitOrDefault(limit), offset |-> 0]

Unknown == <<"U", "n", "k", "n", "o", "w", "n">>

\* a || b || '' over two optional ids
FirstId(a, b) ==
    IF a # Undefined /\ a # Some("") THEN a[1]
    ELSE IF b # Undefined /\ b # Some("") THEN b[1]
    ELSE ""

\* a?.name || d over an optional string held as a character sequence
NameOr(opt, d) == IF opt = Undefined \/ opt = Some(<<>>) THEN d ELSE opt[1]

TrackUriPrefix == "spotify:track:"

\* `spotify:track:${id}` as the prefix and the id it is followed by
TrackUri(id) == <<TrackUriPrefix, id>>

\* The record getTopTracks / getTopArtists builds from one upstream item;
\* pos is the item's place in the upstream array.  uri is the field
\* getTopTracks adds to its track records.
TopItemOf(item, pos) ==
    [ id |-> FirstId(item.id, item._id),
      uri |-> TrackUri(FirstId(item.id, item._id)),
      name |-> NameOr(item.name, Unknown),
      artist_id |-> OrDefault(item.artist_id, ""),
      artist_name |-> NameOr(item.artist_name, Unknown),
      play_count |-> OrZero(item.count),
      pos |-> pos ]

MapTopItems(rawData) == [i \in 1..Len(rawData) |-> TopItemOf(rawData[i], i)]

\* Insert x behind every element whose play_count is at least x's
InsertByPlayCount(sorted, x) ==
    LET k == Cardinality({i \in 1..Len(sorted) : sorted[i].play_count >= x.play_count})
    IN  SubSeq(sorted, 1, k) \o <<x>> \o SubSeq(sorted, k + 1, Len(sorted))

RECURSIVE StableSortDesc(_)
StableSortDesc(items) ==
    IF items = <<>> THEN <<>>
    ELSE InsertByPlayCount(StableSortDesc(SubSeq(items, 1, Len(items) - 1)),
                           items[Len(items)])

\* Variant: the mapped items are returned in upstream order
KeepUpstreamOrder(items) == items

\* .sort((a, b) => b.play_count - a.play_count)
SortByPlayCount(items) == StableSortDesc(items)

\* The handler's formatted list: rank = index + 1
RankedItems(items) ==
    [i \in 1..Len(items) |->
        [rank |-> i, id |-> items[i].id, uri |-> items[i].uri, name |-> items[i].name,
         play_count |-> items[i].play_count, pos |-> items[i].pos]]

TopResult(items) == [items |-> RankedItems(items), total |-> Len(items)]

\* handleGetTopTracks checks the date range; handleGetTopArtists does not.
TopInvoke(t, start, end, limit) ==
    /\ pc = "idle"
    /\ tool' = t
    /\ input' = [start_date |-> start, end_date |-> end, limit |-> limit]
    /\ IF t = "get_top_tracks" /\ StartAfterEnd(start, end)
       THEN /\ Fail
            /\ UNCHANGED <<queue, step>>
       ELSE /\ pc' = "await"
            /\ step' = 1
            /\ queue' = Schedule(queue,
                   <<Request(TopEndpoint(t), TopParams(start, end, limit), 1)>>)
            /\ UNCHANGED <<outcome, result, thrown, failure>>
    /\ UNCHANGED <<server, spotify, calls, concurrent, inflight, sent, replies>>

TopReply(ok, rawData) ==
    /\ pc = "await"
    /\ tool \in TopTools
    /\ inflight # <<>>
    /\ inflight' = <<>>
    /\ IF ~ok
       THEN /\ UpstreamFail
            /\ UNCHANGED replies
       ELSE /\ replies' = Append(replies, rawData)
            /\ Succeed(TopResult(SortByPlayCount(MapTopItems(rawData))))
    /\ UNCHANGED <<server, spotify, calls, concurrent, tool, input, step, queue, sent>>

-----------------------------------------------------------------------------
(* create_custom_wrapped / compare_listening_periods / export_listening_data *)
(* Each issues its sub-fetches together and awaits Promise.all.            *)

JoinTools == {"create_custom_wrapped", "compare_listening_periods",
              "export_listening_data"}

MaxWrappedDays == 366
ApiMaxNb == 30
MsPerHour == 3600000

\* Math.ceil(n / d) for integers n and d > 0
CeilDiv(n, d) == -((-n) \div d)

\* const days = Math.ceil((end.getTime() - start.getTime()) / DAY) + 1
InclusiveDays(start, end) ==
    CeilDiv(GetTime(end) - GetTime(start), HoursPerDay) + 1

\* Variant: the limit of the release before 0.2.2
WrappedTooLong365(days) == days > 365

\* if (days > 366) throw
WrappedTooLong(days) == days > MaxWrappedDays

\* Sum of item.count || 0 over a time_per response
RECURSIVE SumCounts(_)
SumCounts(items) ==
    IF items = <<>> THEN 0
    ELSE OrZero(items[1].count) + SumCounts(Tail(items))

\* Math.round((ms / 3600000) * 10) / 10, held in tenths of an hour
HoursTenths(ms) == RoundDiv(ms * 10, MsPerHour)

\* list?.[0]?.total_count || 0
GrandTotal(list) == IF list = <<>> THEN 0 ELSE OrZero(list[1].total_count)

\* list?.[0] ? list[0].x?.name || 'Unknown' : undefined, then || 'N/A'
NotAvailable == <<"N", "/", "A">>
TopName(list) == IF list = <<>> THEN NotAvailable ELSE NameOr(list[1].name, Unknown)

\* array.slice(from, to) with 0-based bounds
Slice(seq, from, to) == SubSeq(seq, from + 1, Min(to, Len(seq)))

\* The client.get calls inside the Promise.all of each service method
WrappedRequests(in) ==
    LET period == [start |-> in.start_date, end |-> in.end_date]
    IN  << Request("/spotify/top/songs", [period |-> period, nb |-> 10], 1),
           Request("/spotify/top/artists", [period |-> period, nb |-> 10], 2),
           Request("/spotify/top/albums", [period |-> period, nb |-> 5], 3),
           Request("/spotify/time_per", [period |-> period, timeSplit |-> "hour"], 4),
           Request("/spotify/time_per", [period |-> period, timeSplit |-> "day"], 5) >>

CompareRequests(in) ==
    LET p1 == [start |-> in.period1_start, end |-> in.period1_end]
        p2 == [start |-> in.period2_start, end |-> in.period2_end]
    IN  << Request("/spotify/top/songs", [period |-> p1, nb |-> 1], 1),
           Request("/spotify/top/artists", [period |-> p1, nb |-> 1], 2),
           Request("/spotify/time_per", [period |-> p1, timeSplit |-> "day"], 3),
           Request("/spotify/top/songs", [period |-> p2, nb |-> 1], 4),
           Request("/spotify/top/artists", [period |-> p2, nb |-> 1], 5),
           Request("/spotify/time_per", [period |-> p2, timeSplit |-> "day"], 6) >>

\* const limit = Math.min(params.limit || 10, 30); end defaults to today
ExportRequests(in) ==
    LET period == [start |-> StartOrDefault(in.start_date), end |-> in.end_date]
        limit == Min(LimitOrDefault(in.limit), ApiMaxNb)
    IN  << Request("/spotify/top/songs", [period |-> period, nb |-> limit], 1),
           Request("/spotify/top/artists", [period |-> period, nb |-> limit], 2),
           Request("/spotify/time_per", [period |-> period, timeSplit |-> "day"], 3) >>

JoinRequests(t, in) ==
    IF t = "create_custom_wrapped" THEN WrappedRequests(in)
    ELSE IF t = "compare_listening_periods" THEN CompareRequests(in)
    ELSE ExportRequests(in)

\* Variant: the join waits for every sub-fetch and keeps what it got
PromiseAllSettled(settled, n) ==
    IF Len(settled) = n THEN "fulfilled" ELSE "pending"

\* Promise.all over n promises, given those settled so far
PromiseAll(settled, n) ==
    IF \E i \in 1..Len(settled) : ~settled[i].ok THEN "rejected"
    ELSE IF Len(settled) = n THEN "fulfilled"
    ELSE "pending"

\* item._id?.hour and item._id's year, month and day: absent keys read as undefined
HourOf(item) == IF "hour" \in DOMAIN item THEN item.hour ELSE Undefined
DateOf(item) == IF "date" \in DOMAIN item THEN item.date ELSE Undefined

HoursInHistogram == 24

DayNames == <<"Sunday", "Monday", "Tuesday", "Wednesday", "Thursday", "Friday", "Saturday">>

\* new Date(year, month - 1, day).getDay(): 0 is Sunday; 1970-01-01 was a Thursday
GetDay(date) == (DaysFromCivil(date) + 4) % 7

\* The sum of item.count || 0 over the items that fall into one bucket
RECURSIVE BucketSum(_, _, _)
BucketSum(items, Key(_), bucket) ==
    IF items = <<>> THEN 0
    ELSE (IF Key(items[1]) = Some(bucket) THEN OrZero(items[1].count) ELSE 0)
         + BucketSum(Tail(items), Key, bucket)

\* listeningByHour: the keys "0".."23" in insertion order, here positions 1..24
ListeningByHour(hourData) ==
    [h \in 1..HoursInHistogram |-> BucketSum(hourData, HourOf, h - 1)]

WeekdayOf(item) ==
    IF DateOf(item) = Undefined THEN Undefined ELSE Some(GetDay(DateOf(item)[1]))

\* listeningByDay: the seven day names in the order of dayNames
ListeningByDay(timePer) ==
    [d \in 1..Len(DayNames) |-> BucketSum(timePer, WeekdayOf, d - 1)]

\* entries.reduce((max, curr) => curr[1] > max[1] ? curr : max): the first largest entry
PeakEntry(hist) ==
    CHOOSE i \in DOMAIN hist :
        /\ \A j \in DOMAIN hist : hist[j] <= hist[i]
        /\ \A j \in DOMAIN hist : j < i => hist[j] < hist[i]

UnknownLabel == <<"Unknown">>

\* `${hour12}${ampm}` for hour = 0..23
HourLabel(hour) ==
    <<ToString(IF hour % 12 = 0 THEN 12 ELSE hour % 12),
      IF hour >= 12 THEN "PM" ELSE "AM">>

\* getPeakHour: the histogram always has its 24 entries, and there is no zero check
GetPeakHour(hourData) == HourLabel(PeakEntry(hourData) - 1)

\* getPeakDay: if (peakValue === 0) return 'Unknown'
GetPeakDay(dayData) ==
    IF dayData[PeakEntry(dayData)] = 0 THEN UnknownLabel
    ELSE <<DayNames[PeakEntry(dayData)]>>

\* mostActiveDate: the key of the first largest entry of listening_by_day
MostActiveDate(dayData) == <<DayNames[PeakEntry(dayData)]>>

\* The patterns block of the Wrapped response
WrappedPatterns(hourData, timePer) ==
    [ peak_hour |-> GetPeakHour(ListeningByHour(hourData)),
      peak_day_of_week |-> GetPeakDay(ListeningByDay(timePer)),
      most_active_date |-> MostActiveDate(ListeningByDay(timePer)) ]

\* item.track?.id and item._id of a top-list item: absent keys read as undefined
TrackIdOf(item) == IF "id" \in DOMAIN item THEN item.id ELSE Undefined
UnderscoreIdOf(item) == IF "_id" \in DOMAIN item THEN item._id ELSE Undefined

\* The track record createCustomWrapped builds from one top-songs item
WrappedTrackOf(item) ==
    [ id |-> FirstId(TrackIdOf(item), UnderscoreIdOf(item)),
      uri |-> TrackUri(FirstId(TrackIdOf(item), Undefined)) ]

\* createCustomWrapped's aggregate and the handler's formatting of it
WrappedResult(in, data) ==
    LET topTracks == data[1]
        topArtists == data[2]
        topAlbums == data[3]
        timePer == data[5]
        days == InclusiveDays(in.start_date, in.end_date)
        total == GrandTotal(topTracks)
    IN  [ days |-> days,
          total_listening_time_tenths |-> HoursTenths(SumCounts(timePer)),
          total_tracks_played |-> total,
          unique_tracks |-> Len(topTracks),
          unique_artists |-> Len(topArtists),
          average_tracks_per_day_tenths |-> RoundDiv(total * 10, days),
          top_tracks |-> Slice([i \in 1..Len(topTracks) |->
                                  NameOr(topTracks[i].name, Unknown)], 0, 5),
          top_artists |-> Slice([i \in 1..Len(topArtists) |->
                                   NameOr(topArtists[i].name, Unknown)], 0, 5),
          top_albums |-> Slice([i \in 1..Len(topAlbums) |->
                                  NameOr(topAlbums[i].name, Unknown)], 0, 5),
          track_records |-> [i \in 1..Len(topTracks) |-> WrappedTrackOf(topTracks[i])],
          patterns |-> WrappedPatterns(data[4], timePer) ]

\* Variant: the percentage without the zero guard
PlaysChangePercentUnguarded(plays1, plays2) == RoundPercent(plays2 - plays1, plays1)

\* response.period1.total_plays > 0 ? Math.round((change / plays1) * 100) : 0
PlaysChangePercent(plays1, plays2) ==
    IF plays1 > 0 THEN RoundPercent(plays2 - plays1, plays1) ELSE Finite(0)

\* compareListeningPeriods' two summaries and the handler's comparison
CompareResult(in, data) ==
    LET plays1 == GrandTotal(data[1])
        plays2 == GrandTotal(data[4])
        hours1 == HoursTenths(SumCounts(data[3]))
        hours2 == HoursTenths(SumCounts(data[6]))
    IN  [ period1 |-> [total_plays |-> plays1, total_hours_tenths |-> hours1,
                       top_track |-> TopName(data[1]), top_artist |-> TopName(data[2])],
          period2 |-> [total_plays |-> plays2, total_hours_tenths |-> hours2,
                       top_track |-> TopName(data[4]), top_artist |-> TopName(data[5])],
          plays_change |-> plays2 - plays1,
          plays_change_percent |-> PlaysChangePercent(plays1, plays2),
          hours_change_tenths |-> hours2 - hours1,
          diversity_change |-> 0 ]

\* value.replace(/"/g, '""') on a character sequence
RECURSIVE EscapeQuotes(_)
EscapeQuotes(str) ==
    IF str = <<>> THEN <<>>
    ELSE (IF str[1] = "\"" THEN <<"\"", "\"">> ELSE <<str[1]>>)
         \o EscapeQuotes(Tail(str))

\* Variant: the name between quotes as it is
QuotedUnescaped(str) == <<"\"">> \o str \o <<"\"">>

\* `"${escaped}"`
Quoted(str) == <<"\"">> \o EscapeQuotes(str) \o <<"\"">>

\* One csv line as text pieces; the rank is the 1-based position
TrackCsvRow(item, i) ==
    <<ToString(i), ",">> \o Quoted(NameOr(item.name, <<>>)) \o <<",">>
    \o Quoted(NameOr(item.artist_name, <<>>)) \o <<",", ToString(OrZero(item.count))>>
ArtistCsvRow(item, i) ==
    <<ToString(i), ",">> \o Quoted(NameOr(item.name, <<>>))
    \o <<",", ToString(OrZero(item.count))>>

TracksCsvHeader == <<"rank", ",", "name", ",", "artist", ",", "plays">>
ArtistsCsvHeader == <<"rank", ",", "name", ",", "plays">>

\* lines.join('\n')
RECURSIVE JoinLines(_)
JoinLines(lines) ==
    IF lines = <<>> THEN <<>>
    ELSE IF Len(lines) = 1 THEN lines[1]
    ELSE lines[1] \o <<"\n">> \o JoinLines(Tail(lines))

\* Variant: the summary format hands out the service's data as well
ExportDataRaw(format, topTracks, topArtists) ==
    IF format = "csv"
    THEN [ kind |-> "csv",
           tracks_csv |-> JoinLines(<<TracksCsvHeader>> \o
               [i \in 1..Len(topTracks) |-> TrackCsvRow(topTracks[i], i)]),
           artists_csv |-> JoinLines(<<ArtistsCsvHeader>> \o
               [i \in 1..Len(topArtists) |-> ArtistCsvRow(topArtists[i], i)]) ]
    ELSE [kind |-> "json", top_tracks |-> topTracks, top_artists |-> topArtists]

\* The data field of the export result for each format
ExportData(format, topTracks, topArtists) ==
    IF format = "summary" THEN [kind |-> "null"]
    ELSE IF format = "csv"
    THEN [ kind |-> "csv",
           tracks_csv |-> JoinLines(<<TracksCsvHeader>> \o
               [i \in 1..Len(topTracks) |-> TrackCsvRow(topTracks[i], i)]),
           artists_csv |-> JoinLines(<<ArtistsCsvHeader>> \o
               [i \in 1..Len(topArtists) |-> ArtistCsvRow(topArtists[i], i)]) ]
    ELSE [kind |-> "json", top_tracks |-> topTracks, top_artists |-> topArtists]

\* exportListeningData's aggregate and the handler's formatting of it
ExportResult(in, data) ==
    [ format |-> in.format,
      data |-> ExportData(in.format, data[1], data[2]),
      summary |-> [ total_plays |-> GrandTotal(data[1]),
                    total_hours_tenths |-> HoursTenths(SumCounts(data[3])),
                    unique_tracks |-> Len(data[1]),
                    unique_artists |-> Len(data[2]) ] ]

JoinResult(t, in, data) ==
    IF t = "create_custom_wrapped" THEN WrappedResult(in, data)
    ELSE IF t = "compare_listening_periods" THEN CompareResult(in, data)
    ELSE ExportResult(in, data)

\* handleCreateCustomWrapped: both dates are required by the schema
WrappedInvoke(start, end) ==
    /\ pc = "idle"
    /\ tool' = "create_custom_wrapped"
    /\ input' = [start_date |-> start, end_date |-> end]
    /\ IF GetTime(start) > GetTime(end) \/ WrappedTooLong(InclusiveDays(start, end))
       THEN /\ Fail
            /\ UNCHANGED <<queue, step>>
       ELSE /\ pc' = "await"
            /\ step' = 1
            /\ queue' = Schedule(queue, WrappedRequests(input'))
            /\ UNCHANGED <<outcome, result, thrown, failure>>
    /\ UNCHANGED <<server, spotify, calls, concurrent, inflight, sent, replies>>

\* handleCompareListeningPeriods: the four dates go to the service as given
CompareInvoke(start1, end1, start2, end2) ==
    /\ pc = "idle"
    /\ tool' = "compare_listening_periods"
    /\ input' = [period1_start |-> start1, period1_end |-> end1,
                 period2_start |-> start2, period2_end |-> end2]
    /\ pc' = "await"
    /\ step' = 1
    /\ queue' = Schedule(queue, CompareRequests(input'))
    /\ UNCHANGED <<server, spotify, calls, concurrent, inflight, sent, replies, outcome, result, thrown, failure>>

\* handleExportListeningData: dates optional, no range check; include is
\* handed to the service, which does not read it
ExportInvoke(start, end, format, include, limit) ==
    /\ pc = "idle"
    /\ tool' = "export_listening_data"
    /\ input' = [start_date |-> start, end_date |-> end,
                 format |-> format, include |-> include, limit |-> limit]
    /\ pc' = "await"
    /\ step' = 1
    /\ queue' = Schedule(queue, ExportRequests(input'))
    /\ UNCHANGED <<server, spotify, calls, concurrent, inflight, sent, replies, outcome, result, thrown, failure>>

\* A sub-fetch settles while the service method awaits the join
JoinReply(ok, data) ==
    /\ pc = "await"
    /\ tool \in JoinTools
    /\ inflight # <<>>
    /\ inflight' = <<>>
    /\ replies' = Append(replies, [ok |-> ok, data |-> IF ok THEN data ELSE <<>>])
    /\ LET n == Len(JoinRequests(tool, input))
           state == PromiseAll(replies', n)
       IN  IF state = "rejected" THEN UpstreamFail
           ELSE IF state = "fulfilled"
           THEN Succeed(JoinResult(tool, input,
                                   [i \in 1..n |-> replies'[i].data]))
           ELSE UNCHANGED <<pc, outcome, result, thrown, failure>>
    /\ UNCHANGED <<server, spotify, calls, concurrent, tool, input, step, queue, sent>>

\* A sub-fetch settles after the join was rejected: nobody awaits it
LateReply ==
    /\ pc = "done"
    /\ inflight # <<>>
    /\ inflight' = <<>>
    /\ UNCHANGED <<server, spotify, calls, concurrent, pc, tool, input, step, queue, sent, replies, outcome, result, thrown, failure>>

-----------------------------------------------------------------------------
(* Inputs and upstream payloads                                            *)

SubjectId == <<"i", "d">>
OtherId == <<"o", "t">>

RankIds(t) == {SubjectId, <<UriPrefix(t)>> \o SubjectId}

\* A window is described by its length and the position of the subject in
\* it (0: the subject is not in the window).
Window(len, at) ==
    [i \in 1..len |->
        IF i = at THEN [id |-> Some(SubjectId), count |-> Some(MaxCount)]
        ELSE [id |-> Some(OtherId), count |-> Undefined]]

RankPayloads ==
    {[index |-> ix, results |-> rs] :
        ix \in Opt(0..MaxIndex),
        rs \in {Undefined} \cup
               {Some(Window(len, at)) : len \in 0..MaxWindow, at \in 0..1}}

StatsPayloads == [name : Opt({"", "N"})]

-----------------------------------------------------------------------------
(* Specification of the rank tools                                         *)

\* State of the server and of the streaming-platform client at construction
MaxCalls == 2
MaxInvocations == 2
ReservoirSize == 2

CallIds == 1..MaxCalls
Invocations == 1..MaxInvocations

\* A concurrent invocation that has not been made yet
NotInvoked == [pc |-> "idle", pending |-> 0]

\* main() has not run yet
NotStarted == [started |-> FALSE, env |-> {}, spotifyClient |-> FALSE, tools |-> {}]

\* new SpotifyClient(config): the configured tokens, a token that is not yet
\* within five minutes of its expiry, a full reservoir and an empty limiter.
\* issued counts the tokens the accounts service handed out, window the HTTP
\* requests sent since the reservoir was last refilled, lastResponse the
\* latest token response of the accounts service.
NewSpotifyClient ==
    [accessToken |-> 0, refreshToken |-> 0, expiring |-> FALSE,
     reservoir |-> ReservoirSize, queued |-> <<>>, issued |-> 0, window |-> 0,
     lastResponse |-> <<>>]

\* A call id not yet used by get/post/put/delete
NoCall == [pc |-> "none", sends |-> <<>>, refreshes |-> 0, got401 |-> FALSE,
           refreshed |-> "none", outcome |-> "none", error |-> <<>>,
           handler |-> "none", threw |-> FALSE, uri |-> <<>>, raised |-> <<>>]

Init ==
    /\ pc = "idle"
    /\ tool = "none"
    /\ input = <<>>
    /\ step = 0
    /\ queue = <<>>
    /\ inflight = <<>>
    /\ sent = <<>>
    /\ replies = <<>>
    /\ outcome = "none"
    /\ result = <<>>
    /\ thrown = <<>>
    /\ failure = <<>>
    /\ server = NotStarted
    /\ spotify = NewSpotifyClient
    /\ calls = [c \in CallIds |-> NoCall]
    /\ concurrent = [i \in Invocations |-> NotInvoked]

RankDates == {Undefined, <<2024, 1, 1>>}

NextRank ==
    \/ \E t \in RankTools : \E id \in RankIds(t), s \in RankDates, e \in RankDates :
           RankInvoke(t, id, s, e)
    \/ LimiterDispatch
    \/ \E ok \in BOOLEAN, data \in RankPayloads \cup StatsPayloads :
           RankReply(ok, data)

SpecRank == Init /\ [][NextRank]_vars

\* C1: every successful get_artist_rank / get_track_rank result reports
\* rank = upstream index + 1 (index 0 when upstream omits it) and a total
\* population that is at least the rank; index 4 with a 5-item window
\* gives rank 5 and total 5.
C1_RankWithinPopulation ==
    (tool \in RankTools /\ outcome = "success") =>
        LET rawData == replies[1]
            index == IF rawData.index = Undefined THEN 0 ELSE rawData.index[1]
            window == IF rawData.results = Undefined THEN 0
                      ELSE Len(rawData.results[1])
        IN  /\ result.rank = index + 1
            /\ result.total >= result.rank
            /\ result.total >= window
            /\ (index = 4 /\ window = 5) => (result.rank = 5 /\ result.total = 5)

\* A rank response whose window is shorter than the rank
C1_Witness ==
    /\ tool \in RankTools
    /\ outcome = "success"
    /\ replies[1].results # Undefined
    /\ Len(replies[1].results[1]) < result.rank
    /\ result.rank = 5

-----------------------------------------------------------------------------
(* Specification of the top-list tools                                     *)

\* Upstream items of the top endpoints: id under track.id / artist.id
TopItems ==
    [ id : Opt({"t"}), _id : {Undefined}, count : Opt(0..MaxCount),
      name : {Undefined}, artist_id : {Undefined}, artist_name : {Undefined} ]

TopPayloads == SeqsUpTo(TopItems, MaxItems)

TopDates == {Undefined, <<2024, 1, 1>>, <<2024, 3, 1>>}

NextTop ==
    \/ \E t \in TopTools, s \in TopDates, e \in TopDates, limit \in 1..MaxLimit :
           TopInvoke(t, s, e, limit)
    \/ LimiterDispatch
    \/ \E ok \in BOOLEAN, rawData \in TopPayloads : TopReply(ok, rawData)

SpecTop == Init /\ [][NextTop]_vars

\* C8: every successful get_top_tracks / get_top_artists result holds
\* exactly the upstream items, ordered by play_count non-increasing, and
\* items with equal play_count keep their upstream order.
C8_SortedStable ==
    (tool \in TopTools /\ outcome = "success") =>
        LET rawData == replies[1]
            items == result.items
        IN  /\ {items[i].pos : i \in 1..Len(items)} = 1..Len(rawData)
            /\ \A i \in 1..Len(items) :
                   items[i].play_count =
                       (IF rawData[items[i].pos].count = Undefined THEN 0
                        ELSE rawData[items[i].pos].count[1])
            /\ \A i, j \in 1..Len(items) :
                   i < j =>
                       /\ items[i].play_count >= items[j].play_count
                       /\ (items[i].play_count = items[j].play_count
                              => items[i].pos < items[j].pos)

\* An upstream list that was out of order and holds a tie
C8_Witness ==
    /\ tool \in TopTools
    /\ outcome = "success"
    /\ Len(replies[1]) = 3
    /\ replies[1][1].count = Some(1)
    /\ replies[1][2].count = Some(2)
    /\ replies[1][3].count = Some(1)
    /\ result.items[1].pos = 2

\* C9: the number of items get_top_tracks / get_top_artists returns never
\* exceeds the requested limit and equals min(limit, items upstream sent).
C9_LengthWithinLimit ==
    (tool \in TopTools /\ outcome = "success") =>
        /\ Len(result.items) <= input.limit
        /\ Len(result.items) = Min(input.limit, Len(replies[1]))

-----------------------------------------------------------------------------
(* Specification of create_custom_wrapped                                  *)

\* Items of the top-list responses as the join tools read them
JoinListItems ==
    [ count : {Some(1)}, total_count : Opt(0..MaxPlays),
      name : {Some(<<"a">>)}, artist_name : {Undefined} ]

JoinListPayloads == SeqsUpTo(JoinListItems, 1)

\* time_per responses: count is a duration in milliseconds
JoinTimePayloads == {<<>>, <<[count |-> Some(5400000)]>>}

\* The payloads the upstream can give to the request in flight
JoinPayloadsInFlight(lists, times) ==
    IF inflight = <<>> THEN {}
    ELSE IF inflight[1].ep = "/spotify/time_per" THEN times
    ELSE lists

WrappedListPayloads ==
    {list \in JoinListPayloads :
        list = <<>> \/ list[1].total_count = Some(MaxPlays)}

WrappedDates ==
    {date \in (MinYear..MaxYear) \X {1, 2, 12} \X {1, 29, 31} :
        date[3] <= DaysInMonth(date[1], date[2])}

NextWrapped ==
    \/ \E s \in WrappedDates, e \in WrappedDates : WrappedInvoke(s, e)
    \/ LimiterDispatch
    \/ \E ok \in BOOLEAN :
           \E data \in JoinPayloadsInFlight(WrappedListPayloads, JoinTimePayloads) :
               JoinReply(ok, data)
    \/ LateReply

SpecWrapped == Init /\ [][NextWrapped]_vars

RejectedBeforeFetch ==
    /\ pc = "done"
    /\ outcome = "error"
    /\ sent = <<>>
    /\ queue = <<>>
    /\ inflight = <<>>

Accepted == Len(queue) + Len(sent) > 0

\* C3: create_custom_wrapped accepts a period of exactly 366 days counted
\* inclusively (2024-01-01 to 2024-12-31) and rejects every period of 367
\* or more days before any upstream fetch is issued.
C3_WrappedDayLimit ==
    (tool = "create_custom_wrapped") =>
        LET days == DaysFromCivil(input.end_date)
                    - DaysFromCivil(input.start_date) + 1
        IN  /\ (days = 366 => Accepted)
            /\ (days >= 367 => RejectedBeforeFetch)
            /\ (input.start_date = <<2024, 1, 1>> /\ input.end_date = <<2024, 12, 31>>
                   => Accepted)

\* The leap year 2024 from its first to its last day, answered in full
C3_Witness ==
    /\ tool = "create_custom_wrapped"
    /\ input.start_date = <<2024, 1, 1>>
    /\ input.end_date = <<2024, 12, 31>>
    /\ outcome = "success"
    /\ result.days = 366

\* A 367-day period, turned away
C3_WitnessRejected ==
    /\ tool = "create_custom_wrapped"
    /\ input.start_date = <<2024, 1, 1>>
    /\ input.end_date = <<2025, 1, 1>>
    /\ RejectedBeforeFetch

-----------------------------------------------------------------------------
(* Specification of the three tools that join parallel sub-fetches         *)

JoinDates == {<<2024, 1, 1>>, <<2024, 3, 1>>}

NextJoin ==
    \/ \E s \in JoinDates, e \in JoinDates : WrappedInvoke(s, e)
    \/ \E s1 \in JoinDates, e2 \in JoinDates :
           CompareInvoke(s1, <<2024, 3, 1>>, <<2024, 1, 1>>, e2)
    \/ \E s \in Opt({1}), format \in {"summary", "csv", "json"} :
           ExportInvoke(IF s = Undefined THEN Undefined ELSE <<2024, 3, 1>>,
                        <<2024, 1, 1>>, format, Undefined, MaxLimit)
    \/ LimiterDispatch
    \/ \E ok \in BOOLEAN :
           \E data \in JoinPayloadsInFlight(WrappedListPayloads, JoinTimePayloads) :
               JoinReply(ok, data)
    \/ LateReply

SpecJoin == Init /\ [][NextJoin]_vars

\* The number of sub-fetches each joining operation issues
SubFetches ==
    IF tool = "create_custom_wrapped" THEN 5
    ELSE IF tool = "compare_listening_periods" THEN 6
    ELSE 3

\* C4: Wrapped (5 sub-fetches), Compare (6) and Export (3) fail as a whole
\* when any sub-fetch fails, and produce a result only after every
\* sub-fetch was sent and answered successfully.
C4_JoinAll ==
    (tool \in JoinTools) =>
        /\ (outcome = "success" =>
               /\ Len(sent) = SubFetches
               /\ Len(replies) = SubFetches
               /\ \A i \in 1..Len(replies) : replies[i].ok
               /\ queue = <<>>
               /\ inflight = <<>>)
        /\ ((\E i \in 1..Len(replies) : ~replies[i].ok) =>
               /\ outcome = "error"
               /\ result = <<>>)
        /\ (outcome = "none" => result = <<>>)

\* The join is rejected by a failure of a sub-fetch that is not the first
C4_Witness ==
    /\ tool \in JoinTools
    /\ outcome = "error"
    /\ Len(replies) = 3
    /\ replies[1].ok
    /\ replies[2].ok
    /\ ~replies[3].ok

-----------------------------------------------------------------------------
(* Specification of compare_listening_periods                              *)

CompareSongPayloads == SeqsUpTo(JoinListItems, 1)

NextCompare ==
    \/ \E s1 \in JoinDates, e2 \in JoinDates :
           CompareInvoke(s1, <<2024, 3, 1>>, <<2024, 1, 1>>, e2)
    \/ LimiterDispatch
    \/ \E ok \in BOOLEAN :
           \E data \in JoinPayloadsInFlight(
                           IF inflight # <<>> /\ inflight[1].ep = "/spotify/top/songs"
                           THEN CompareSongPayloads ELSE {<<>>},
                           JoinTimePayloads) :
               JoinReply(ok, data)
    \/ LateReply

SpecCompare == Init /\ [][NextCompare]_vars

\* C10: plays_change_percent is 0 whenever period 1 has zero recorded
\* plays, and is a finite number for every pair of period totals.
C10_PercentFinite ==
    (tool = "compare_listening_periods" /\ outcome = "success") =>
        LET songs1 == replies[1].data
            plays1 == IF songs1 = <<>> \/ songs1[1].total_count = Undefined
                      THEN 0 ELSE songs1[1].total_count[1]
            percent == result.plays_change_percent
        IN  /\ percent.kind = "finite"
            /\ (plays1 = 0 => percent.value = 0)
            /\ result.period1.total_plays = plays1

\* Period 1 without plays, period 2 with plays
C10_Witness ==
    /\ tool = "compare_listening_periods"
    /\ outcome = "success"
    /\ result.period1.total_plays = 0
    /\ result.period2.total_plays = MaxPlays

-----------------------------------------------------------------------------
(* search_listening_history: YourSpotifyService.searchHistory              *)

SearchTools == {"search_listening_history", "searchHistory"}

ArtistSearchEndpoint == "/artist/search/:query"
MinArtistQuery == 3
SearchPoolSize == 30

\* String.prototype.toLowerCase over the letters the inputs are made of
LowerChar(c) == IF c = "A" THEN "a" ELSE IF c = "B" THEN "b" ELSE c
ToLowerCase(str) == [i \in 1..Len(str) |-> LowerChar(str[i])]

\* String.prototype.includes
Includes(str, sub) ==
    \E i \in 0..(Len(str) - Len(sub)) : SubSeq(str, i + 1, i + Len(sub)) = sub

\* Array.prototype.filter
RECURSIVE Filter(_, _)
Filter(seq, keep) ==
    IF seq = <<>> THEN <<>>
    ELSE (IF 1 \in keep THEN <<seq[1]>> ELSE <<>>)
         \o Filter(Tail(seq), {i - 1 : i \in keep \ {1}})

\* new Set(artists.flatMap(a => [a.id, a._id].filter(Boolean)))
FoundArtistIds(artists) ==
    {artists[i].id[1] :
        i \in {k \in 1..Len(artists) :
                  artists[k].id # Undefined /\ artists[k].id # Some("")}}
    \cup
    {artists[i]._id[1] :
        i \in {k \in 1..Len(artists) :
                  artists[k]._id # Undefined /\ artists[k]._id # Some("")}}

\* new Set(artists.map(a => (a.name || '').toLowerCase()).filter(Boolean))
FoundArtistNames(artists) ==
    {ToLowerCase(NameOr(artists[i].name, <<>>)) : i \in 1..Len(artists)} \ {<<>>}

\* artistIds.has(a.id) || artistNames.has(a.name.toLowerCase())
ByFoundArtist(t, artists) ==
    \/ t.artist_id \in FoundArtistIds(artists)
    \/ ToLowerCase(t.artist_name) \in FoundArtistNames(artists)

\* a.name.toLowerCase().includes(query) over the track's artist
ByArtistName(t, query) ==
    Includes(ToLowerCase(t.artist_name), ToLowerCase(query))

\* t.track.name.toLowerCase().includes(query) || the artist test
ByTrackOrArtistName(t, query) ==
    \/ Includes(ToLowerCase(t.name), ToLowerCase(query))
    \/ ByArtistName(t, query)

\* The tracks getTopTracks returns for an upstream array
TopTracksOf(rawData) == SortByPlayCount(MapTopItems(rawData))

FilterByFoundArtists(tracks, artists) ==
    Filter(tracks, {i \in 1..Len(tracks) : ByFoundArtist(tracks[i], artists)})

FilterLocally(tracks, type, query) ==
    Filter(tracks, {i \in 1..Len(tracks) :
                       IF type = "artist" THEN ByArtistName(tracks[i], query)
                       ELSE ByTrackOrArtistName(tracks[i], query)})

\* Variant: the artist search is tried whatever the query's length
ArtistSearchAlways(query) == TRUE

\* if (params.query.length >= 3)
UsesArtistSearch(query) == Len(query) >= MinArtistQuery

\* Variant: total counts the returned page
SearchTotalOfPage(allFiltered, page) == Len(page)

\* total: allFiltered.length
SearchTotal(allFiltered, page) == Len(allFiltered)

\* allFiltered.slice(offset || 0, (offset || 0) + (limit || 10))
SearchPage(allFiltered, offset, limit) ==
    Slice(allFiltered, OrZero(offset), OrZero(offset) + LimitOrDefault(limit))

\* The ListeningHistoryResponse searchHistory returns
SearchResponse(allFiltered, in) ==
    LET page == SearchPage(allFiltered, in.offset, in.limit)
    IN  [ items |-> page,
          total |-> SearchTotal(allFiltered, page),
          offset |-> OrZero(in.offset),
          limit |-> LimitOrDefault(in.limit) ]

\* handleSearchListeningHistory's output built from the response
SearchToolResult(response) ==
    [ results |-> [i \in 1..Len(response.items) |->
                      [id |-> response.items[i].id,
                       name |-> response.items[i].name,
                       artists |-> <<response.items[i].artist_name>>,
                       pos |-> response.items[i].pos]],
      total_results |-> response.total ]

SearchResult(t, response) ==
    IF t = "search_listening_history" THEN SearchToolResult(response)
    ELSE response

\* getTopTracks({start_date, end_date, limit: 30}) inside searchHistory
SearchTopRequest(in, idx) ==
    Request("/spotify/top/songs",
            TopParams(in.start_date, in.end_date, SearchPoolSize), idx)

\* Entry of searchHistory: the first request it schedules
SearchStart(t, in) ==
    /\ pc = "idle"
    /\ tool' = t
    /\ input' = in
    /\ pc' = "await"
    /\ IF in.type = "artist" /\ UsesArtistSearch(in.query)
       THEN /\ step' = 1
            /\ queue' = Schedule(queue,
                   <<Request(ArtistSearchEndpoint, [query |-> in.query], 1)>>)
       ELSE /\ step' = 3
            /\ queue' = Schedule(queue, <<SearchTopRequest(in, 3)>>)
    /\ UNCHANGED <<server, spotify, calls, concurrent, inflight, sent, replies, outcome, result, thrown, failure>>

\* handleSearchListeningHistory passes query, type, dates and limit only
SearchInvoke(query, type, start, end, limit) ==
    SearchStart("search_listening_history",
                [query |-> query, type |-> type, start_date |-> start,
                 end_date |-> end, limit |-> limit, offset |-> Undefined])

\* searchHistory called with an offset
SearchHistoryCall(query, type, start, end, limit, offset) ==
    SearchStart("searchHistory",
                [query |-> query, type |-> type, start_date |-> start,
                 end_date |-> end, limit |-> limit, offset |-> offset])

\* step 1: the artist search; step 2: top tracks for the found artists;
\* step 3: top tracks for the local filter
SearchReply(ok, data) ==
    /\ pc = "await"
    /\ tool \in SearchTools
    /\ inflight # <<>>
    /\ inflight' = <<>>
    /\ replies' = Append(replies, [step |-> step, ok |-> ok,
                                   data |-> IF ok THEN data ELSE <<>>])
    /\ IF step = 1
       THEN /\ step' = IF ok /\ data # <<>> THEN 2 ELSE 3
            /\ queue' = Schedule(queue, <<SearchTopRequest(input, step')>>)
            /\ UNCHANGED <<pc, outcome, result, thrown, failure>>
       ELSE IF step = 2
       THEN LET allFiltered ==
                    IF ok THEN FilterByFoundArtists(TopTracksOf(data), replies[1].data)
                    ELSE <<>>
            IN  IF allFiltered # <<>>
                THEN /\ Succeed(SearchResult(tool, SearchResponse(allFiltered, input)))
                     /\ UNCHANGED <<queue, step>>
                ELSE /\ step' = 3
                     /\ queue' = Schedule(queue, <<SearchTopRequest(input, 3)>>)
                     /\ UNCHANGED <<pc, outcome, result, thrown, failure>>
       ELSE /\ IF ok
               THEN Succeed(SearchResult(tool,
                        SearchResponse(FilterLocally(TopTracksOf(data), input.type,
                                                     input.query), input)))
               ELSE UpstreamFail
            /\ UNCHANGED <<queue, step>>
    /\ UNCHANGED <<server, spotify, calls, concurrent, tool, input, sent>>

-----------------------------------------------------------------------------
(* Specification of search_listening_history                               *)

MaxTracks == 2
MaxOffset == 2

\* Queries of 1, 2, 3 and 4 characters
SearchQueries ==
    {<<"b">>, <<"A", "b">>, <<"a", "B", "a">>, <<"a", "b", "a", "b">>}

SearchTypes == {"track", "artist", "album"}

\* Upstream items of /spotify/top/songs as searchHistory reads them
SearchItems ==
    { [ id |-> Some("t1"), _id |-> Undefined, count |-> Some(2),
        name |-> Some(<<"a", "b">>),
        artist_id |-> Some("x1"), artist_name |-> Some(<<"A", "b", "a">>) ],
      [ id |-> Some("t2"), _id |-> Undefined, count |-> Some(1),
        name |-> Some(<<"B">>),
        artist_id |-> Some("x2"), artist_name |-> Some(<<"a", "b", "a", "b">>) ],
      [ id |-> Undefined, _id |-> Undefined, count |-> Undefined,
        name |-> Undefined,
        artist_id |-> Undefined, artist_name |-> Undefined ] }

SearchTrackPayloads == SeqsUpTo(SearchItems, MaxTracks)

\* Artists the upstream artist search can answer with
FoundArtists ==
    { [id |-> Some("x1"), _id |-> Undefined, name |-> Some(<<"A", "B", "A">>)],
      [id |-> Undefined, _id |-> Some("x9"), name |-> Some(<<"a", "b", "a", "b">>)],
      [id |-> Undefined, _id |-> Undefined, name |-> Undefined] }

ArtistSearchPayloads == SeqsUpTo(FoundArtists, 1)

SearchPayloadsInFlight ==
    IF inflight = <<>> THEN {}
    ELSE IF inflight[1].ep = ArtistSearchEndpoint THEN ArtistSearchPayloads
    ELSE SearchTrackPayloads

NextSearch ==
    \/ \E query \in SearchQueries, type \in SearchTypes, limit \in 1..MaxLimit :
           SearchInvoke(query, type, Undefined, Undefined, limit)
    \/ \E query \in SearchQueries, type \in SearchTypes, limit \in 0..MaxLimit,
          offset \in Opt(0..MaxOffset) :
           SearchHistoryCall(query, type, Undefined, Undefined, limit, offset)
    \/ LimiterDispatch
    \/ \E ok \in BOOLEAN, data \in SearchPayloadsInFlight : SearchReply(ok, data)

SpecSearch == Init /\ [][NextSearch]_vars

\* Every request the operation has scheduled so far, in order
SearchIssued == sent \o queue

ArtistSearchFailed == Len(replies) >= 1 /\ replies[1].step = 1 /\ ~replies[1].ok

ArtistSearchFoundNone ==
    \/ Len(replies) >= 1 /\ replies[1].step = 1 /\ replies[1].ok
                         /\ replies[1].data = <<>>
    \/ Len(replies) >= 2 /\ replies[2].step = 2 /\ replies[2].ok
          /\ \A i \in 1..Len(replies[2].data) :
                 ~ByFoundArtist(TopItemOf(replies[2].data[i], i), replies[1].data)

\* Number of tracks of the last response whose artist name holds the query
LocalArtistMatches ==
    LET rawData == replies[Len(replies)].data
    IN  Cardinality({i \in 1..Len(rawData) :
            Includes(ToLowerCase(NameOr(rawData[i].artist_name, Unknown)),
                     ToLowerCase(input.query))})

SearchTotalReported ==
    IF tool = "search_listening_history" THEN result.total_results ELSE result.total

ShortQueryStaysLocal ==
    Len(input.query) < 3 =>
        \A i \in 1..Len(SearchIssued) : SearchIssued[i].ep # ArtistSearchEndpoint

LongQueryAsksUpstream ==
    Len(input.query) >= 3 =>
        /\ SearchIssued # <<>>
        /\ SearchIssued[1].ep = ArtistSearchEndpoint
        /\ \A i \in 2..Len(SearchIssued) : SearchIssued[i].ep = "/spotify/top/songs"

\* C5 (as amended): an artist-type search with a query shorter than 3
\* characters never requests the artist-search endpoint; with 3 or more
\* characters it requests it first; when that request fails or matches
\* nothing the operation fetches the top tracks again and filters them
\* locally by substring, and it ends in success exactly when that fetch
\* succeeds (in an error when it fails).
C5_ArtistSearchFallback ==
    (tool \in SearchTools /\ input.type = "artist") =>
        /\ ShortQueryStaysLocal
        /\ LongQueryAsksUpstream
        /\ (ArtistSearchFailed \/ ArtistSearchFoundNone) =>
               /\ SearchIssued[Len(SearchIssued)].idx = 3
               /\ pc = "done" =>
                      /\ replies[Len(replies)].step = 3
                      /\ outcome = "success" <=> replies[Len(replies)].ok
                      /\ outcome = "success" => SearchTotalReported = LocalArtistMatches

\* The artist search failed and the local filter found a track
C5_Witness ==
    /\ tool \in SearchTools
    /\ input.type = "artist"
    /\ ArtistSearchFailed
    /\ outcome = "success"
    /\ SearchTotalReported >= 1

\* C5 (as stated): ... and if that call fails or matches nothing the
\* operation returns a (possibly empty) success result instead of an error.
C5_FallbackNeverFails ==
    (tool \in SearchTools /\ input.type = "artist") =>
        /\ ShortQueryStaysLocal
        /\ LongQueryAsksUpstream
        /\ ((ArtistSearchFailed \/ ArtistSearchFoundNone) /\ pc = "done")
               => outcome = "success"

\* C6: in every searchHistory result the page is the filtered list from
\* offset on, cut to at most limit items, and total is the size of the
\* whole filtered list, whatever the size of the page.
C6_SearchPagination ==
    (tool \in SearchTools /\ outcome = "success") =>
        LET last == replies[Len(replies)]
            tracks == TopTracksOf(last.data)
            matching ==
                {i \in 1..Len(tracks) :
                    IF last.step = 2 THEN ByFoundArtist(tracks[i], replies[1].data)
                    ELSE IF input.type = "artist"
                    THEN ByArtistName(tracks[i], input.query)
                    ELSE ByTrackOrArtistName(tracks[i], input.query)}
            Nth(n) == CHOOSE i \in matching :
                          Cardinality({j \in matching : j <= i}) = n
            offset == IF input.offset = Undefined THEN 0 ELSE input.offset[1]
            limit == IF input.limit = 0 THEN 10 ELSE input.limit
            page == IF tool = "search_listening_history" THEN result.results
                    ELSE result.items
        IN  /\ SearchTotalReported = Cardinality(matching)
            /\ Len(page) <= limit
            /\ Len(page) = Min(limit, Max(0, Cardinality(matching) - offset))
            /\ \A k \in 1..Len(page) : page[k].pos = tracks[Nth(offset + k)].pos

\* Two tracks match and the page holds only the second
C6_Witness ==
    /\ tool = "searchHistory"
    /\ outcome = "success"
    /\ result.total = 2
    /\ result.offset = 1
    /\ Len(result.items) = 1

-----------------------------------------------------------------------------
(* analyze_affinity                                                        *)

MinUsers == 2
MaxUsersAllowed == 5
AffinityDefaultLimit == 20

\* String.prototype.trim on a character sequence
RECURSIVE TrimStart(_)
TrimStart(str) ==
    IF str # <<>> /\ str[1] = " " THEN TrimStart(Tail(str)) ELSE str

RECURSIVE TrimEnd(_)
TrimEnd(str) ==
    IF str # <<>> /\ str[Len(str)] = " "
    THEN TrimEnd(SubSeq(str, 1, Len(str) - 1)) ELSE str

Trim(str) == TrimEnd(TrimStart(str))

\* z.array(z.string().min(1)).min(2).max(5), applied by schema.parse
\* before the handler runs
AffinitySchemaAccepts(user_ids) ==
    /\ Len(user_ids) >= MinUsers
    /\ Len(user_ids) <= MaxUsersAllowed
    /\ \A i \in 1..Len(user_ids) : Len(user_ids[i]) >= 1

\* new Set(input.user_ids).size !== input.user_ids.length
HasDuplicates(user_ids) ==
    Cardinality({user_ids[i] : i \in 1..Len(user_ids)}) # Len(user_ids)

\* The throws of handleAnalyzeAffinity before it calls the service
AffinityHandlerRejects(user_ids, start, end) ==
    \/ Len(user_ids) < MinUsers
    \/ Len(user_ids) > MaxUsersAllowed
    \/ HasDuplicates(user_ids)
    \/ StartAfterEnd(start, end)

\* Variant: every id the handler let through is sent upstream
AllUserIds(user_ids) == user_ids

\* params.user_ids.filter(id => id && typeof id === 'string' && id.trim())
ValidUserIds(user_ids) ==
    Filter(user_ids, {i \in 1..Len(user_ids) :
                         user_ids[i] # <<>> /\ Trim(user_ids[i]) # <<>>})

\* The throws of analyzeAffinity before it calls the client
AffinityServiceRejects(user_ids) ==
    \/ Len(user_ids) < MinUsers
    \/ Len(ValidUserIds(user_ids)) < MinUsers

\* apiParams of analyzeAffinity; ids is joined with ',' on the wire
AffinityParams(in) ==
    [ ids |-> ValidUserIds(in.user_ids),
      mode |-> IF in.mode = "minima" THEN 1 ELSE 0,
      nb |-> IF in.limit = 0 THEN AffinityDefaultLimit ELSE in.limit,
      start |-> in.start_date,
      end |-> in.end_date ]

\* item.play_counts || an even share of item.count for every valid user
AffinityPlayCounts(item, users) ==
    IF item.play_counts # Undefined THEN item.play_counts[1]
    ELSE [k \in 1..Len(users) |-> RoundDiv(OrZero(item.count), Len(users))]

\* analyzeAffinity's return value as handleAnalyzeAffinity formats it
AffinityResult(in, rawData) ==
    LET users == ValidUserIds(in.user_ids)
        shared == [i \in 1..Len(rawData) |->
                      [ rank |-> i,
                        id |-> FirstId(rawData[i].id, rawData[i]._id),
                        name |-> NameOr(rawData[i].name, Unknown),
                        affinity_score |-> OrZero(rawData[i].count),
                        play_counts |-> AffinityPlayCounts(rawData[i], users) ]]
    IN  [ mode |-> in.mode,
          users |-> users,
          shared_tracks |-> shared,
          total_shared_tracks |-> Len(shared) ]

\* catch (error) in analyzeAffinity: String(error) of a plain object
StringOf(error) == IF error.instanceofError THEN error.message ELSE <<"[object Object]">>

NotFoundTexts == {<<"Resource not found">>}

AffinityCatch(error) ==
    LET message == StringOf(error)
    IN  IF message \in NotFoundTexts
        THEN ErrorInstance(<<"Affinity analysis failed: One or more user IDs not found.">>)
        ELSE ErrorInstance(<<"Affinity analysis failed: ">> \o message)

AffinityFail ==
    \E status \in FailureStatuses : Throw(AffinityCatch(NormalizeError(status)))

AffinityInvoke(user_ids, mode, limit, start, end) ==
    /\ pc = "idle"
    /\ tool' = "analyze_affinity"
    /\ input' = [user_ids |-> user_ids, mode |-> mode, limit |-> limit,
                 start_date |-> start, end_date |-> end]
    /\ IF \/ ~AffinitySchemaAccepts(user_ids)
          \/ AffinityHandlerRejects(user_ids, start, end)
          \/ AffinityServiceRejects(user_ids)
       THEN /\ Fail
            /\ UNCHANGED <<queue, step>>
       ELSE /\ pc' = "await"
            /\ step' = 1
            /\ queue' = Schedule(queue,
                   <<Request("/spotify/collaborative/top/songs",
                             AffinityParams(input'), 1)>>)
            /\ UNCHANGED <<outcome, result, thrown, failure>>
    /\ UNCHANGED <<server, spotify, calls, concurrent, inflight, sent, replies>>

AffinityReply(ok, rawData) ==
    /\ pc = "await"
    /\ tool = "analyze_affinity"
    /\ inflight # <<>>
    /\ inflight' = <<>>
    /\ IF ~ok
       THEN /\ AffinityFail
            /\ UNCHANGED replies
       ELSE /\ replies' = Append(replies, rawData)
            /\ Succeed(AffinityResult(input, rawData))
    /\ UNCHANGED <<server, spotify, calls, concurrent, tool, input, step, queue, sent>>

-----------------------------------------------------------------------------
(* Specification of analyze_affinity                                       *)

MaxUsers == 6

\* Distinct ids: k letters
UserId(k) == [i \in 1..k |-> "u"]
BlankId == <<" ">>
PaddedId == <<" ", "u", " ">>

\* Short lists over every kind of id; longer lists of distinct ids, and
\* the same with the last id repeated from the first or left blank
AffinityIdLists ==
    SeqsUpTo({<<>>, BlankId, PaddedId, UserId(1), UserId(2)}, 3)
    \cup {[i \in 1..n |-> UserId(i)] : n \in 4..MaxUsers}
    \cup {[i \in 1..n |-> IF i = n THEN UserId(1) ELSE UserId(i)] : n \in 4..MaxUsers}
    \cup {[i \in 1..n |-> IF i = n THEN BlankId ELSE UserId(i)] : n \in 4..MaxUsers}

AffinityItems ==
    [ id : Opt({"t1"}), _id : {Undefined}, name : {Undefined},
      count : Opt(0..MaxCount), play_counts : Opt({<<MaxCount, 0>>}) ]

AffinityPayloads == SeqsUpTo(AffinityItems, 1)

AffinityDates == {Undefined, <<2024, 1, 1>>, <<2024, 3, 1>>}

NextAffinity ==
    \/ \E user_ids \in AffinityIdLists, mode \in {"average", "minima"},
          limit \in 1..MaxLimit, s \in AffinityDates, e \in AffinityDates :
           AffinityInvoke(user_ids, mode, limit, s, e)
    \/ LimiterDispatch
    \/ \E ok \in BOOLEAN, rawData \in AffinityPayloads : AffinityReply(ok, rawData)

SpecAffinity == Init /\ [][NextAffinity]_vars

TooFewOrTooMany == Len(input.user_ids) < 2 \/ Len(input.user_ids) > 5

HasEmptyId == \E i \in 1..Len(input.user_ids) : input.user_ids[i] = <<>>

HasRepeatedId ==
    \E i, j \in 1..Len(input.user_ids) :
        i < j /\ input.user_ids[i] = input.user_ids[j]

PeriodInverted ==
    /\ input.start_date # Undefined
    /\ input.end_date # Undefined
    /\ DaysFromCivil(input.start_date) > DaysFromCivil(input.end_date)

\* The positions of the ids that hold a character other than a space
SolidIds ==
    {i \in 1..Len(input.user_ids) :
        \E k \in 1..Len(input.user_ids[i]) : input.user_ids[i][k] # " "}

IdsRequested == (sent \o queue)[1].params.ids

\* C7 (as amended): analyze_affinity rejects fewer than 2 ids, more than
\* 5, an empty id or a repeated id without any upstream request; 2 to 5
\* unique non-empty ids (period not inverted) proceed to the upstream
\* call exactly when at least 2 of them hold a non-whitespace character,
\* and then only those ids are sent; otherwise the input is rejected
\* without any upstream request.
C7_AffinityIds ==
    (tool = "analyze_affinity") =>
        /\ (TooFewOrTooMany \/ HasEmptyId \/ HasRepeatedId) => RejectedBeforeFetch
        /\ (~TooFewOrTooMany /\ ~HasEmptyId /\ ~HasRepeatedId /\ ~PeriodInverted) =>
               IF Cardinality(SolidIds) >= 2
               THEN /\ Accepted
                    /\ Len(IdsRequested) = Cardinality(SolidIds)
                    /\ \A k \in 1..Len(IdsRequested) :
                           \E i \in SolidIds : IdsRequested[k] = input.user_ids[i]
               ELSE RejectedBeforeFetch

\* Three unique ids of which one is blank: the call goes out for two
C7_Witness ==
    /\ tool = "analyze_affinity"
    /\ input.user_ids = <<UserId(1), UserId(2), BlankId>>
    /\ outcome = "success"
    /\ result.users = <<UserId(1), UserId(2)>>

\* Five unique ids, answered
C7_WitnessFive ==
    /\ tool = "analyze_affinity"
    /\ Len(input.user_ids) = 5
    /\ outcome = "success"
    /\ Len(result.users) = 5

\* C7 (as stated): ... an input of 2 to 5 unique non-empty ids proceeds to
\* the upstream call.
C7_UniqueIdsProceed ==
    (tool = "analyze_affinity") =>
        /\ (TooFewOrTooMany \/ HasEmptyId \/ HasRepeatedId) => RejectedBeforeFetch
        /\ (~TooFewOrTooMany /\ ~HasEmptyId /\ ~HasRepeatedId /\ ~PeriodInverted)
               => Accepted

-----------------------------------------------------------------------------
(* get_listening_timeline / analyze_listening_patterns                     *)

PlayEstimateMs == 180000
HoursInDay == 24
DaysInWeek == 7

\* A number read in a condition: undefined and 0 are falsy
Truthy(opt) == opt # Undefined /\ opt[1] # 0

NoBucket ==
    [year |-> Undefined, month |-> Undefined, day |-> Undefined,
     week |-> Undefined, hour |-> Undefined]

\* const id = item._id || {}
BucketOf(item) == IF item._id = Undefined THEN NoBucket ELSE item._id[1]

\* The label built from year/month/day, year/month or year/week; '' otherwise
PeriodLabel(item) ==
    LET id == BucketOf(item)
    IN  IF Truthy(id.year) /\ Truthy(id.month) /\ Truthy(id.day)
        THEN [kind |-> "day", year |-> id.year[1], month |-> id.month[1],
              day |-> id.day[1], week |-> 0]
        ELSE IF Truthy(id.year) /\ Truthy(id.month)
        THEN [kind |-> "month", year |-> id.year[1], month |-> id.month[1],
              day |-> 0, week |-> 0]
        ELSE IF Truthy(id.year) /\ Truthy(id.week)
        THEN [kind |-> "week", year |-> id.year[1], month |-> 0,
              day |-> 0, week |-> id.week[1]]
        ELSE [kind |-> "empty", year |-> 0, month |-> 0, day |-> 0, week |-> 0]

\* Math.round(duration / 180000)
EstimatedPlays(duration) == RoundDiv(duration, PlayEstimateMs)

\* One entry per upstream bucket: timeline and the month pattern
BucketEntries(rawData) ==
    [i \in 1..Len(rawData) |->
        [ period |-> PeriodLabel(rawData[i]),
          plays |-> EstimatedPlays(OrZero(rawData[i].count)),
          duration_ms |-> OrZero(rawData[i].count) ]]

\* hourTotals[hour] += item.count || 0 for the items that carry an hour
HourTotal(rawData, h) ==
    SumCounts(Filter(rawData, {i \in 1..Len(rawData) :
                                  BucketOf(rawData[i]).hour = Some(h)}))

\* dayTotals[dayOfWeek] += item.count || 0 for the items that carry a date
DayTotal(rawData, w) ==
    SumCounts(Filter(rawData,
        {i \in 1..Len(rawData) :
            LET id == BucketOf(rawData[i])
            IN  /\ Truthy(id.year) /\ Truthy(id.month) /\ Truthy(id.day)
                /\ GetDay(<<id.year[1], id.month[1], id.day[1]>>) = w}))

\* analyzeListeningPatterns' patterns for each pattern type
PatternEntries(type, rawData) ==
    IF type = "hour_of_day"
    THEN [k \in 1..HoursInDay |->
             [ period |-> [kind |-> "hour", hour |-> k - 1],
               plays |-> EstimatedPlays(HourTotal(rawData, k - 1)),
               duration_ms |-> HourTotal(rawData, k - 1) ]]
    ELSE IF type = "day_of_week"
    THEN [k \in 1..DaysInWeek |->
             [ period |-> [kind |-> "weekday", weekday |-> k - 1],
               plays |-> EstimatedPlays(DayTotal(rawData, k - 1)),
               duration_ms |-> DayTotal(rawData, k - 1) ]]
    ELSE BucketEntries(rawData)

RECURSIVE SumPlays(_)
SumPlays(entries) ==
    IF entries = <<>> THEN 0 ELSE entries[1].plays + SumPlays(Tail(entries))

\* entries.reduce((max, p) => p.plays > max.plays ? p : max, entries[0]):
\* the position of the first entry with the most plays, 0 when there is none
PeakIndex(entries) ==
    IF entries = <<>> THEN 0
    ELSE CHOOSE i \in 1..Len(entries) :
             /\ \A j \in 1..Len(entries) : entries[j].plays <= entries[i].plays
             /\ \A j \in 1..(i - 1) : entries[j].plays < entries[i].plays

\* entries.reduce((min, p) => p.plays < min.plays ? p : min, entries[0])
LowestIndex(entries) ==
    IF entries = <<>> THEN 0
    ELSE CHOOSE i \in 1..Len(entries) :
             /\ \A j \in 1..Len(entries) : entries[j].plays >= entries[i].plays
             /\ \A j \in 1..(i - 1) : entries[j].plays > entries[i].plays

\* handleGetListeningTimeline's output
TimelineResult(rawData) ==
    LET timeline == BucketEntries(rawData)
        totalPlays == SumPlays(timeline)
        peak == PeakIndex(timeline)
    IN  [ timeline |-> [i \in 1..Len(timeline) |->
                           [ date |-> timeline[i].period,
                             plays |-> timeline[i].plays,
                             duration_hours_tenths |->
                                 HoursTenths(timeline[i].duration_ms) ]],
          total_plays |-> totalPlays,
          average_plays_per_period |->
              RoundDiv(totalPlays, Max(Len(timeline), 1)),
          peak_position |-> peak,
          peak_plays |-> IF peak = 0 THEN 0 ELSE timeline[peak].plays ]

\* handleAnalyzeListeningPatterns' output
PatternsResult(type, rawData) ==
    LET entries == PatternEntries(type, rawData)
        totalPlays == SumPlays(entries)
        peak == PeakIndex(entries)
        lowest == LowestIndex(entries)
    IN  [ pattern_type |-> type,
          patterns |-> [i \in 1..Len(entries) |->
                           [ period |-> entries[i].period,
                             plays |-> entries[i].plays,
                             duration_hours_tenths |->
                                 HoursTenths(entries[i].duration_ms),
                             percentage |->
                                 RoundPercent(entries[i].plays, totalPlays) ]],
          peak_position |-> peak,
          peak_plays |-> IF peak = 0 THEN 0 ELSE entries[peak].plays,
          lowest_position |-> lowest,
          lowest_plays |-> IF lowest = 0 THEN 0 ELSE entries[lowest].plays ]

\* timeSplit of the time_per request for a pattern type
PatternTimeSplit(type) ==
    IF type = "hour_of_day" THEN "hour"
    ELSE IF type = "day_of_week" THEN "day"
    ELSE "month"

TimeSeriesTools == {"get_listening_timeline", "analyze_listening_patterns"}

\* handleGetListeningTimeline: dates optional, no range check
TimelineInvoke(start, end, granularity) ==
    /\ pc = "idle"
    /\ tool' = "get_listening_timeline"
    /\ input' = [start_date |-> start, end_date |-> end,
                 granularity |-> granularity]
    /\ pc' = "await"
    /\ step' = 1
    /\ queue' = Schedule(queue,
           <<Request("/spotify/time_per",
                     [start |-> StartOrDefault(start), end |-> end,
                      timeSplit |-> granularity], 1)>>)
    /\ UNCHANGED <<server, spotify, calls, concurrent, inflight, sent, replies, outcome, result, thrown, failure>>

GenericMessage(t) == "invalid input"

\* The message of the Error an operation the public token cannot do throws
UnsupportedMessage(t) ==
    CASE t = "analyze_listening_patterns" ->
           "day_and_time pattern requires combining hour and day data. Try hour_of_day or day_of_week separately."
      [] t = "update_user_settings" ->
           "Settings updates require authenticated session. Public token access is read-only."
      [] t = "revoke_public_access" ->
           "Public token revocation requires an authenticated web session. Visit Your Spotify settings to revoke access."
      [] t = "rename_account" ->
           "Account rename requires an authenticated web session. Visit Your Spotify settings to change your username."

WriteTools == {"update_user_settings", "rename_account", "revoke_public_access"}

\* handleUpdateUserSettings, handleRenameAccount, handleRevokePublicAccess:
\* the service method throws at once
UnsupportedInvoke(t) ==
    /\ pc = "idle"
    /\ tool' = t
    /\ input' = [timezone |-> Undefined]
    /\ Throw(ErrorInstance(<<UnsupportedMessage(t)>>))
    /\ UNCHANGED <<server, spotify, calls, concurrent, step, queue, inflight, sent, replies>>

\* handleAnalyzeListeningPatterns: day_and_time throws inside the service
\* before any request; no range check
PatternsInvoke(type, start, end) ==
    /\ pc = "idle"
    /\ tool' = "analyze_listening_patterns"
    /\ input' = [start_date |-> start, end_date |-> end, pattern_type |-> type]
    /\ IF type = "day_and_time"
       THEN /\ Throw(ErrorInstance(<<UnsupportedMessage("analyze_listening_patterns")>>))
            /\ UNCHANGED <<queue, step>>
       ELSE /\ pc' = "await"
            /\ step' = 1
            /\ queue' = Schedule(queue,
                   <<Request("/spotify/time_per",
                             [start |-> StartOrDefault(start), end |-> end,
                              timeSplit |-> PatternTimeSplit(type)], 1)>>)
            /\ UNCHANGED <<outcome, result, thrown, failure>>
    /\ UNCHANGED <<server, spotify, calls, concurrent, inflight, sent, replies>>

TimeSeriesReply(ok, rawData) ==
    /\ pc = "await"
    /\ tool \in TimeSeriesTools
    /\ inflight # <<>>
    /\ inflight' = <<>>
    /\ IF ~ok
       THEN /\ UpstreamFail
            /\ UNCHANGED replies
       ELSE /\ replies' = Append(replies, rawData)
            /\ Succeed(IF tool = "get_listening_timeline"
                       THEN TimelineResult(rawData)
                       ELSE PatternsResult(input.pattern_type, rawData))
    /\ UNCHANGED <<server, spotify, calls, concurrent, tool, input, step, queue, sent>>

-----------------------------------------------------------------------------
(* get_discovery_insights                                                  *)

DiscoveryDefaultLimit == 20
DiscoveryArtistNb == 10
DiscoveryTrackMaxCount == 5
DiscoveryArtistMaxCount == 10

\* params.limit || 20
DiscoveryLimit(limit) == IF limit = 0 THEN DiscoveryDefaultLimit ELSE limit

\* (items || []).filter(x => x.count <= max).slice(0, n); an item without
\* a count fails the comparison
LowCountItems(rawData, max, n) ==
    Slice(Filter(rawData, {i \in 1..Len(rawData) :
                              /\ rawData[i].count # Undefined
                              /\ rawData[i].count[1] <= max}), 0, n)

\* getDiscoveryInsights' return value as handleGetDiscoveryInsights formats it
DiscoveryResult(in, songs, artists) ==
    LET discoveredTracks ==
            LowCountItems(songs, DiscoveryTrackMaxCount, DiscoveryLimit(in.limit))
        discoveredArtists ==
            LowCountItems(artists, DiscoveryArtistMaxCount, DiscoveryArtistNb)
    IN  [ new_tracks |-> [i \in 1..Len(discoveredTracks) |->
                             [ id |-> FirstId(discoveredTracks[i].id,
                                              discoveredTracks[i]._id),
                               name |-> NameOr(discoveredTracks[i].name, Unknown),
                               first_played |-> in.start_date,
                               total_plays |-> OrZero(discoveredTracks[i].count) ]],
          new_artists |-> [i \in 1..Len(discoveredArtists) |->
                              [ id |-> FirstId(discoveredArtists[i].id,
                                               discoveredArtists[i]._id),
                                name |-> NameOr(discoveredArtists[i].name, Unknown),
                                first_played |-> in.start_date,
                                total_plays |-> OrZero(discoveredArtists[i].count) ]],
          total_new_tracks |-> Len(discoveredTracks),
          total_new_artists |-> Len(discoveredArtists) ]

\* apiParams of getDiscoveryInsights; an absent end is sent as today's date
DiscoveryParams(in, nb) ==
    [start |-> in.start_date, end |-> in.end_date, nb |-> nb]

\* handleGetDiscoveryInsights: start_date required, no range check
DiscoveryInvoke(start, end, limit) ==
    /\ pc = "idle"
    /\ tool' = "get_discovery_insights"
    /\ input' = [start_date |-> start, end_date |-> end, limit |-> limit]
    /\ pc' = "await"
    /\ step' = 1
    /\ queue' = Schedule(queue,
           <<Request("/spotify/top/songs",
                     DiscoveryParams(input', DiscoveryLimit(limit)), 1)>>)
    /\ UNCHANGED <<server, spotify, calls, concurrent, inflight, sent, replies, outcome, result, thrown, failure>>

\* The songs are awaited first, the artists are requested after them
DiscoveryReply(ok, rawData) ==
    /\ pc = "await"
    /\ tool = "get_discovery_insights"
    /\ inflight # <<>>
    /\ inflight' = <<>>
    /\ IF ~ok
       THEN /\ UpstreamFail
            /\ UNCHANGED <<queue, replies, step>>
       ELSE IF step = 1
       THEN /\ replies' = Append(replies, rawData)
            /\ step' = 2
            /\ queue' = Schedule(queue,
                   <<Request("/spotify/top/artists",
                             DiscoveryParams(input, DiscoveryArtistNb), 2)>>)
            /\ UNCHANGED <<pc, outcome, result, thrown, failure>>
       ELSE /\ replies' = Append(replies, rawData)
            /\ Succeed(DiscoveryResult(input, replies[1], rawData))
            /\ UNCHANGED <<queue, step>>
    /\ UNCHANGED <<server, spotify, calls, concurrent, tool, input, sent>>

-----------------------------------------------------------------------------
(* Specification of every tool that takes a period                         *)

PeriodTools ==
    RankTools \cup TopTools \cup JoinTools \cup TimeSeriesTools
    \cup {"search_listening_history", "analyze_affinity", "get_discovery_insights"}

Earlier == <<2024, 1, 1>>
Later == <<2024, 3, 1>>

PeriodDates == {Undefined, Earlier, Later}
GivenDates == {Earlier, Later}

\* Upstream buckets of /spotify/time_per
TimeBuckets ==
    { [ _id |-> Some([year |-> Some(2024), month |-> Some(1), day |-> Some(1),
                      week |-> Undefined, hour |-> Some(0)]),
        count |-> Some(5400000) ],
      [ _id |-> Undefined, count |-> Undefined ] }

TimeSeriesPayloads == SeqsUpTo(TimeBuckets, 1)

\* What the upstream can answer to the request in flight
PeriodPayloadsInFlight ==
    IF inflight = <<>> THEN {}
    ELSE IF tool \in RankTools THEN
        (IF step = 1 THEN {[index |-> Some(0), results |-> Undefined]}
         ELSE {[name |-> Some("N")]})
    ELSE IF inflight[1].ep = ArtistSearchEndpoint THEN ArtistSearchPayloads
    ELSE IF inflight[1].ep = "/spotify/time_per" THEN TimeSeriesPayloads
    ELSE IF tool \in JoinTools THEN {<<>>}
    ELSE IF tool = "analyze_affinity" THEN AffinityPayloads
    ELSE SeqsUpTo(SearchItems, 1)

NextPeriod ==
    \/ \E t \in RankTools, s \in PeriodDates, e \in PeriodDates :
           RankInvoke(t, SubjectId, s, e)
    \/ \E t \in TopTools, s \in PeriodDates, e \in PeriodDates :
           TopInvoke(t, s, e, 1)
    \/ \E type \in SearchTypes, s \in PeriodDates, e \in PeriodDates :
           SearchInvoke(<<"a", "B", "a">>, type, s, e, 1)
    \/ \E s \in GivenDates, e \in GivenDates : WrappedInvoke(s, e)
    \/ \E s1 \in GivenDates, e1 \in GivenDates, s2 \in GivenDates, e2 \in GivenDates :
           CompareInvoke(s1, e1, s2, e2)
    \/ \E s \in PeriodDates, e \in PeriodDates :
           ExportInvoke(s, e, "summary", Undefined, 1)
    \/ \E s \in PeriodDates, e \in PeriodDates :
           AffinityInvoke(<<UserId(1), UserId(2)>>, "minima", 1, s, e)
    \/ \E s \in PeriodDates, e \in PeriodDates, g \in {"day", "week", "month"} :
           TimelineInvoke(s, e, g)
    \/ \E s \in PeriodDates, e \in PeriodDates,
          type \in {"hour_of_day", "day_of_week", "month", "day_and_time"} :
           PatternsInvoke(type, s, e)
    \/ \E s \in GivenDates, e \in PeriodDates : DiscoveryInvoke(s, e, 1)
    \/ LimiterDispatch
    \/ \E ok \in BOOLEAN, data \in PeriodPayloadsInFlight :
           \/ RankReply(ok, data)
           \/ TopReply(ok, data)
           \/ SearchReply(ok, data)
           \/ JoinReply(ok, data)
           \/ AffinityReply(ok, data)
           \/ TimeSeriesReply(ok, data)
           \/ DiscoveryReply(ok, data)
    \/ LateReply

SpecPeriod == Init /\ [][NextPeriod]_vars

\* The periods of the invocation: two for compare, one for the others
InputPeriods ==
    IF tool = "compare_listening_periods"
    THEN {<<input.period1_start, input.period1_end>>,
          <<input.period2_start, input.period2_end>>}
    ELSE {<<input.start_date, input.end_date>>}

StartLaterThanEnd ==
    \E p \in InputPeriods :
        /\ p[1] # Undefined
        /\ p[2] # Undefined
        /\ DaysFromCivil(p[1]) > DaysFromCivil(p[2])

\* C2: every operation that takes a period rejects an input whose start
\* date is later than its end date, and issues no upstream request before
\* the rejection.
C2_InvertedPeriodRejected ==
    (tool \in PeriodTools /\ StartLaterThanEnd) => RejectedBeforeFetch

-----------------------------------------------------------------------------
(* Specification of the result-count parameter of every analytics request  *)

\* The largest limit each tool's schema accepts
TopSchemaMaxLimit == 30
WideSchemaMaxLimit == 50

\* Limits at and around the upstream ceiling
TopLimits == {1, ApiMaxNb - 1, TopSchemaMaxLimit}
WideLimits == {1, ApiMaxNb, ApiMaxNb + 1, WideSchemaMaxLimit}

NextNb ==
    \/ \E t \in TopTools, limit \in TopLimits :
           TopInvoke(t, Undefined, Undefined, limit)
    \/ \E limit \in TopLimits : ExportInvoke(Undefined, Undefined, "json", Undefined, limit)
    \/ \E limit \in WideLimits :
           SearchInvoke(<<"a", "B", "a">>, "artist", Undefined, Undefined, limit)
    \/ \E limit \in WideLimits :
           AffinityInvoke(<<UserId(1), UserId(2)>>, "average", limit,
                          Undefined, Undefined)
    \/ \E limit \in WideLimits : DiscoveryInvoke(Earlier, Undefined, limit)
    \/ WrappedInvoke(Earlier, Later)
    \/ CompareInvoke(Earlier, Later, Earlier, Later)
    \/ LimiterDispatch
    \/ \E ok \in BOOLEAN, data \in PeriodPayloadsInFlight :
           \/ TopReply(ok, data)
           \/ SearchReply(ok, data)
           \/ JoinReply(ok, data)
           \/ AffinityReply(ok, data)
           \/ DiscoveryReply(ok, data)
    \/ LateReply

SpecNb == Init /\ [][NextNb]_vars

\* C11: every request sent to the analytics upstream that carries a
\* result-count parameter carries an nb of at most 30.
C11_NbAtMostThirty ==
    \A i \in 1..Len(sent) :
        "nb" \in DOMAIN sent[i].params => sent[i].params.nb <= 30

-----------------------------------------------------------------------------
(* The streaming-platform client: tokens, limiter, one retry after a 401   *)

MaxConcurrent == 5
Unauthorized == 401
OkStatus == 200

SpotifyErrorMessages(status) ==
    CASE status = 400 -> "Invalid request - check parameters"
      [] status = 401 -> "Authentication failed - Spotify token may need refresh"
      [] status = 403 -> "Premium required or scope missing"
      [] status = 404 -> "Resource not found on Spotify"
      [] status = 429 -> "Spotify rate limit exceeded - please wait"
      [] status = 500 -> "Spotify server error"
      [] status = 502 -> "Spotify service temporarily unavailable"
      [] status = 503 -> "Spotify service temporarily unavailable"

\* normalizeError(error) of the streaming client for an axios error
SpotifyNormalizeError(responseStatus) ==
    LET status == NormalizedStatus(responseStatus)
    IN  PlainObject(IF status \in MappedStatuses
                    THEN <<SpotifyErrorMessages(status)>>
                    ELSE <<UpstreamMessage>>,
                    status)

\* normalizeError(error) for a value that is not an axios error
NormalizeNonAxios(error) ==
    PlainObject(IF error.instanceofError THEN error.message
                ELSE <<"Unknown error occurred">>, 500)

StatusText(status) ==
    CASE status = 401 -> "401" [] status = 404 -> "404" [] status = 418 -> "418"
      [] status = 429 -> "429" [] status = 500 -> "500" [] OTHER -> "no response"

\* The axios error of a failed response, as axios throws it
AxiosError(status) ==
    [instanceofError |-> TRUE,
     message |-> <<"Request failed with status code ", StatusText(status)>>,
     status |-> status]

\* Statuses of the failed responses the platform and the accounts service give
SpotifyFailures == {429}

\* Jobs the limiter is running: each has one HTTP request in flight
RunningPcs == {"auth", "first", "refresh", "resend"}
Running == {c \in CallIds : calls[c].pc \in RunningPcs}

\* A token response of the accounts service: a new access token and,
\* when withRefresh, a new refresh token
TokenResponse(withRefresh) ==
    [access_token |-> spotify.issued + 1,
     refresh_token |-> IF withRefresh THEN Some(spotify.issued + 1) ELSE Undefined]

StoreAccessTokenOnly(client, response) ==
    [client EXCEPT !.accessToken = response.access_token,
                   !.expiring = FALSE,
                   !.issued = response.access_token]

\* refreshAccessToken after a successful response
StoreTokens(client, response) ==
    [client EXCEPT !.accessToken = response.access_token,
                   !.expiring = FALSE,
                   !.issued = response.access_token,
                   !.refreshToken = IF response.refresh_token # Undefined
                                    THEN response.refresh_token[1] ELSE @]

\* One more HTTP request leaves the process in the current quota window
CountHttp(client) == [client EXCEPT !.window = @ + 1]

\* The job sends the request with this bearer token
Send(call, token, nextPc) ==
    [call EXCEPT !.pc = nextPc, !.sends = Append(@, token)]

\* Handlers whose own catch returns a result instead of rethrowing
CatchingHandlers == {"get_current_playback"}

\* The job ends. What the client threw reaches the tool boundary, which turns
\* it into a failure payload, unless the handler caught it and returned.
Finish(call, threw, error) ==
    LET rethrown == threw /\ call.handler \notin CatchingHandlers
    IN  [call EXCEPT !.pc = "done",
                     !.threw = threw,
                     !.raised = IF threw THEN error ELSE <<>>,
                     !.outcome = IF rethrown THEN ToolBoundary(error).outcome
                                 ELSE "success",
                     !.error = IF rethrown THEN ToolBoundary(error).payload ELSE <<>>]

SpotifyUnchanged ==
    UNCHANGED <<pc, tool, input, step, queue, inflight, sent, replies, outcome,
                result, thrown, failure, server, concurrent>>


\* get/post/put/delete(endpoint): limiter.schedule queues the job
SpotifyRequest(c) ==
    /\ calls[c].pc = "none"
    /\ \A b \in CallIds : b < c => calls[b].pc # "none"
    /\ calls' = [calls EXCEPT ![c].pc = "queued"]
    /\ spotify' = [spotify EXCEPT !.queued = Append(@, c)]
    /\ SpotifyUnchanged

\* handleGetCurrentPlayback: client.get('/me/player') inside try / catch
PlaybackRequest(c) ==
    /\ calls[c].pc = "none"
    /\ \A b \in CallIds : b < c => calls[b].pc # "none"
    /\ calls' = [calls EXCEPT ![c].pc = "queued", ![c].handler = "get_current_playback"]
    /\ spotify' = [spotify EXCEPT !.queued = Append(@, c)]
    /\ SpotifyUnchanged

\* The limiter starts the oldest queued job while the reservoir and the
\* concurrency allow it; getAuthHeader refreshes first when the token is
\* within five minutes of its expiry, otherwise the request is sent.
SpotifyJobStart ==
    /\ spotify.queued # <<>>
    /\ spotify.reservoir > 0
    /\ Cardinality(Running) < MaxConcurrent
    /\ LET c == Head(spotify.queued)
           started == [spotify EXCEPT !.queued = Tail(@), !.reservoir = @ - 1]
       IN  /\ spotify' = CountHttp(started)
           /\ calls' = IF spotify.expiring
                       THEN [calls EXCEPT ![c].pc = "auth"]
                       ELSE [calls EXCEPT ![c] = Send(@, spotify.accessToken, "first")]
    /\ SpotifyUnchanged

\* The accounts service answers the refresh getAuthHeader asked for. A failure
\* is normalized by refreshAccessToken and again by the catch of the method.
AuthRefreshReply(c, ok, withRefresh) ==
    /\ calls[c].pc = "auth"
    /\ IF ok
       THEN LET response == TokenResponse(withRefresh)
                stored == StoreTokens(spotify, response)
            IN  /\ spotify' = CountHttp([stored EXCEPT !.lastResponse = response])
                /\ calls' = [calls EXCEPT ![c] = Send(@, stored.accessToken, "first")]
       ELSE /\ UNCHANGED spotify
            /\ \E status \in SpotifyFailures :
                 calls' = [calls EXCEPT ![c] =
                     Finish(@, TRUE, NormalizeNonAxios(SpotifyNormalizeError(status)))]
    /\ SpotifyUnchanged

\* The platform answers the first send: success returns the data, a 401 starts
\* refreshAccessToken, any other failure is normalized and thrown.
FirstReply(c, status) ==
    /\ calls[c].pc = "first"
    /\ IF status = OkStatus
       THEN /\ calls' = [calls EXCEPT ![c] = Finish(@, FALSE, <<>>)]
            /\ UNCHANGED spotify
       ELSE IF status = Unauthorized
       THEN /\ calls' = [calls EXCEPT ![c].pc = "refresh", ![c].got401 = TRUE,
                                      ![c].refreshes = @ + 1]
            /\ spotify' = CountHttp(spotify)
       ELSE /\ calls' = [calls EXCEPT ![c] = Finish(@, TRUE, SpotifyNormalizeError(status))]
            /\ UNCHANGED spotify
    /\ SpotifyUnchanged

\* The accounts service answers the refresh made after the 401: on success the
\* request is sent once more with this.accessToken, on failure the normalized
\* error leaves the catch block.
RefreshReply(c, ok, withRefresh) ==
    /\ calls[c].pc = "refresh"
    /\ IF ok
       THEN LET response == TokenResponse(withRefresh)
                stored == StoreTokens(spotify, response)
            IN  /\ spotify' = CountHttp([stored EXCEPT !.lastResponse = response])
                /\ calls' = [calls EXCEPT ![c] =
                     Send([@ EXCEPT !.refreshed = "ok"], stored.accessToken, "resend")]
       ELSE /\ UNCHANGED spotify
            /\ \E status \in SpotifyFailures :
                 calls' = [calls EXCEPT ![c] =
                     Finish([@ EXCEPT !.refreshed = "failed"], TRUE,
                            SpotifyNormalizeError(status))]
    /\ SpotifyUnchanged

AfterResendRetrying(call, status) ==
    IF status = OkStatus THEN Finish(call, FALSE, <<>>)
    ELSE IF status = Unauthorized THEN Send(call, spotify.accessToken, "resend")
    ELSE Finish(call, TRUE, AxiosError(status))

\* The re-send is outside the try: its data is returned, its failure (another
\* 401 included) leaves the method as axios raised it.
AfterResend(call, status) ==
    IF status = OkStatus THEN Finish(call, FALSE, <<>>)
    ELSE Finish(call, TRUE, AxiosError(status))

\* The platform answers the re-send.
ResendReply(c, status) ==
    /\ calls[c].pc = "resend"
    /\ calls' = [calls EXCEPT ![c] = AfterResend(@, status)]
    /\ UNCHANGED spotify
    /\ SpotifyUnchanged

\* reservoirRefreshInterval elapsed: the reservoir is set to its full amount
ReservoirRefresh ==
    /\ spotify.reservoir < ReservoirSize \/ spotify.window > 0
    /\ spotify' = [spotify EXCEPT !.reservoir = ReservoirSize, !.window = 0]
    /\ UNCHANGED calls
    /\ SpotifyUnchanged

\* Time passes until Date.now() > tokenExpiresAt - 5 minutes
TokenNearsExpiry ==
    /\ ~spotify.expiring
    /\ spotify' = [spotify EXCEPT !.expiring = TRUE]
    /\ UNCHANGED calls
    /\ SpotifyUnchanged

ResponseStatuses == {OkStatus, Unauthorized} \cup SpotifyFailures

NextSpotify ==
    \/ \E c \in CallIds : SpotifyRequest(c)
    \/ SpotifyJobStart
    \/ \E c \in CallIds, ok \in BOOLEAN, withRefresh \in BOOLEAN :
         AuthRefreshReply(c, ok, withRefresh)
    \/ \E c \in CallIds, status \in ResponseStatuses : FirstReply(c, status)
    \/ \E c \in CallIds, ok \in BOOLEAN, withRefresh \in BOOLEAN :
         RefreshReply(c, ok, withRefresh)
    \/ \E c \in CallIds, status \in ResponseStatuses : ResendReply(c, status)
    \/ ReservoirRefresh
    \/ TokenNearsExpiry

SpecSpotify == Init /\ [][NextSpotify]_vars

-----------------------------------------------------------------------------
(* The tool boundary of both registrars                                    *)

AnalyticsTools ==
    {"get_track_stats", "get_top_tracks", "get_artist_stats", "get_top_artists",
     "search_listening_history", "create_custom_wrapped", "analyze_affinity",
     "get_listening_timeline", "get_artist_rank", "get_track_rank",
     "analyze_listening_patterns", "get_discovery_insights",
     "compare_listening_periods", "export_listening_data",
     "update_user_settings", "rename_account", "generate_public_share_link",
     "revoke_public_access"}

StreamingTools ==
    {"create_playlist_from_query", "add_tracks_to_playlist",
     "search_spotify_catalog", "get_current_playback", "control_playback",
     "play_tracks", "queue_tracks", "get_user_playlists",
     "update_playlist_details", "remove_from_playlist"}

\* schema.parse(args) throws inside the try of the registered callback: the
\* handler never runs and the ZodError is caught like any other Error.
SchemaReject(t) ==
    /\ pc = "idle"
    /\ tool' = t
    /\ input' = <<>>
    /\ Throw(ErrorInstance(<<"zod issues">>))
    /\ UNCHANGED <<server, spotify, calls, concurrent, step, queue, inflight, sent, replies>>

\* One streaming tool invocation that makes one client call
StreamingCall ==
    \/ SpotifyRequest(1)
    \/ SpotifyJobStart
    \/ \E status \in ResponseStatuses : FirstReply(1, status)
    \/ \E ok \in BOOLEAN, withRefresh \in BOOLEAN : RefreshReply(1, ok, withRefresh)
    \/ \E status \in ResponseStatuses : ResendReply(1, status)

NextBoundary ==
    \/ NextNb
    \/ \E t \in AnalyticsTools : SchemaReject(t)
    \/ StreamingCall

SpecBoundary == Init /\ [][NextBoundary]_vars

EndedInSuccess(o, payload) == o = "success" /\ payload = <<>>

EndedInFailure(o, payload) == o = "error" /\ payload # <<>> /\ payload.isError

\* C12: every tool invocation, of either registrar, that has ended has ended
\* in exactly one of a success payload or a failure payload flagged as an
\* error, whatever the input (schema-invalid included) and whatever the
\* upstream answered; no other outcome (an escaped exception) ever occurs.
C12_OnePayload ==
    /\ outcome \in {"none", "success", "error"}
    /\ pc = "done" =>
         \/ EndedInSuccess(outcome, failure)
         \/ EndedInFailure(outcome, failure) /\ result = <<>>
    /\ \A c \in CallIds :
         /\ calls[c].outcome \in {"none", "success", "error"}
         /\ calls[c].pc = "done" =>
              \/ EndedInSuccess(calls[c].outcome, calls[c].error)
              \/ EndedInFailure(calls[c].outcome, calls[c].error)

\* A schema-invalid analytics invocation and a streaming invocation whose
\* upstream failed have both ended in a failure payload.
C12_Witness ==
    /\ pc = "done" /\ input = <<>> /\ outcome = "error"
    /\ calls[1].pc = "done" /\ calls[1].outcome = "error"


\* The text pieces of a failure payload
TextPieces(payload) == {payload.text[i] : i \in 1..Len(payload.text)}

\* The invocation sent a request and then ended in a failure
UpstreamFailed == pc = "done" /\ outcome = "error" /\ sent # <<>>

AnalyticsNormalizedMessages ==
    {NormalizeError(status).message[1] : status \in FailureStatuses}

StreamingNormalizedMessages ==
    {SpotifyNormalizeError(status).message[1] : status \in ResponseStatuses \ {OkStatus}}

\* C13: when a request to an upstream fails, in either client, the failure
\* payload of the invocation contains the normalized message derived from the
\* status of the failed response, for every tool and every failure status.
C13_NormalizedMessageShown ==
    /\ UpstreamFailed =>
         TextPieces(failure) \cap AnalyticsNormalizedMessages # {}
    /\ \A c \in CallIds :
         calls[c].pc = "done" /\ calls[c].outcome = "error" =>
           TextPieces(calls[c].error) \cap StreamingNormalizedMessages # {}


\* Number of times the call sent its request to the platform
SendCount(c) == Len(calls[c].sends)

\* C14: a streaming-platform request that receives a 401 triggers exactly one
\* token refresh; when that refresh succeeds it is followed by exactly one
\* re-send of the request with the new access token, and when it fails the
\* call fails without a re-send; whatever the outcome of the re-send (another
\* 401 included) no further refresh or re-send happens for that call, so one
\* call sends its request at most twice.
C14_RefreshThenRetryOnce ==
    \A c \in CallIds :
      /\ SendCount(c) <= 2
      /\ calls[c].refreshes <= 1
      /\ calls[c].got401 =>
           /\ calls[c].refreshes = 1
           /\ calls[c].refreshed = "ok" =>
                /\ SendCount(c) = 2
                /\ calls[c].sends[2] > calls[c].sends[1]
           /\ calls[c].refreshed = "failed" =>
                SendCount(c) = 1 /\ calls[c].pc = "done"
           /\ calls[c].refreshed = "none" =>
                SendCount(c) = 1 /\ calls[c].pc = "refresh"

\* A call got a 401, refreshed, re-sent, got another 401 and ended there.
C14_Witness ==
    \E c \in CallIds :
      /\ calls[c].pc = "done" /\ calls[c].got401 /\ calls[c].refreshed = "ok"
      /\ calls[c].outcome = "error"
      /\ calls[c].error.text = <<"Error: ">> \o AxiosError(Unauthorized).message

\* As first stated: every call that received a 401 and has ended made one
\* refresh and exactly one re-send.
C14_AlwaysResent ==
    \A c \in CallIds :
      calls[c].got401 /\ calls[c].pc = "done" =>
        calls[c].refreshes = 1 /\ SendCount(c) = 2


\* A step in which the accounts service answered a refresh of call c
RefreshSucceeded(c) ==
    calls[c].pc \in {"auth", "refresh"} /\ calls'[c].pc \in {"first", "resend"}

RefreshFailed(c) == calls[c].pc \in {"auth", "refresh"} /\ calls'[c].pc = "done"

\* A step in which call c sent its request
Sent(c) == Len(calls'[c].sends) > Len(calls[c].sends)

TokensFollowRefresh ==
    /\ \A c \in CallIds :
         /\ RefreshSucceeded(c) =>
              /\ spotify'.accessToken = spotify'.lastResponse.access_token
              /\ spotify'.accessToken # spotify.accessToken
              /\ spotify'.refreshToken =
                   IF spotify'.lastResponse.refresh_token # Undefined
                   THEN spotify'.lastResponse.refresh_token[1]
                   ELSE spotify.refreshToken
         /\ RefreshFailed(c) =>
              /\ spotify'.accessToken = spotify.accessToken
              /\ spotify'.refreshToken = spotify.refreshToken
         /\ Sent(c) =>
              calls'[c].sends[Len(calls'[c].sends)] = spotify'.accessToken
    /\ spotify'.lastResponse # <<>> =>
         spotify'.accessToken = spotify'.lastResponse.access_token

\* C15: after a successful token refresh every streaming-platform request
\* sent afterwards carries the newly issued access token; the stored refresh
\* token is replaced exactly when the refresh response carries a new one; a
\* failed refresh leaves both stored tokens unchanged.
C15_TokensAfterRefresh == [][TokensFollowRefresh]_vars

\* One refresh rotated the refresh token, a later one did not, and a request
\* started after it is in flight with the newest access token.
C15_Witness ==
    /\ spotify.refreshToken > 0
    /\ spotify.accessToken > spotify.refreshToken
    /\ spotify.lastResponse.refresh_token = Undefined
    /\ \E c \in CallIds :
         calls[c].pc = "first" /\ calls[c].sends = <<spotify.accessToken>>

-----------------------------------------------------------------------------
(* Concurrent tool invocations sharing the analytics limiter               *)

\* Number of sub-fetches createCustomWrapped starts with Promise.all
WrappedFetches == Len(JoinRequests("create_custom_wrapped", [start_date |-> Earlier, end_date |-> Later]))

FetchCounts == {1, WrappedFetches}

\* The requests an invocation hands to client.get, tagged with their caller
OwnedRequests(i, n) ==
    [k \in 1..n |-> [ep |-> "/spotify/top/songs", params |-> <<>>, idx |-> k, owner |-> i]]

ConcurrentUnchanged ==
    UNCHANGED <<pc, tool, input, step, replies, outcome, result, thrown, failure,
                server, spotify, calls>>

\* A tool invocation arrives while others may be running: every client.get it
\* makes, alone or under Promise.all, schedules a job on the one limiter.
ConcurrentInvoke(i, n) ==
    /\ concurrent[i].pc = "idle"
    /\ concurrent' = [concurrent EXCEPT ![i] = [pc |-> "await", pending |-> n]]
    /\ queue' = Schedule(queue, OwnedRequests(i, n))
    /\ UNCHANGED <<inflight, sent>>
    /\ ConcurrentUnchanged

\* The upstream answers the oldest running request; its caller resumes.
ConcurrentReply(i) ==
    /\ inflight # <<>>
    /\ inflight[1].owner = i
    /\ inflight' = Tail(inflight)
    /\ concurrent' = [concurrent EXCEPT ![i] =
           [pc |-> IF @.pending = 1 THEN "done" ELSE "await", pending |-> @.pending - 1]]
    /\ UNCHANGED <<queue, sent>>
    /\ ConcurrentUnchanged

NextConcurrent ==
    \/ \E i \in Invocations, n \in FetchCounts : ConcurrentInvoke(i, n)
    \/ LimiterDispatch
    \/ \E i \in Invocations : ConcurrentReply(i)

SpecConcurrent == Init /\ [][NextConcurrent]_vars

\* Requests of every invocation that were scheduled and not yet answered
Outstanding(i) ==
    Len(SelectSeq(queue, LAMBDA r : r.owner = i))
    + Len(SelectSeq(inflight, LAMBDA r : r.owner = i))

\* C16: at any moment at most one request to the analytics upstream is in
\* flight, across all concurrently running invocations and across the parallel
\* sub-fetches of one operation; every request an invocation still waits for
\* is either queued in the one shared limiter or the one in flight.
C16_OneInFlight ==
    /\ Len(inflight) <= 1
    /\ \A i \in Invocations : concurrent[i].pending = Outstanding(i)

\* Two invocations run at once, one of them with parallel sub-fetches, and
\* requests of both wait in the queue while one is in flight.
C16_Witness ==
    /\ Len(inflight) = 1
    /\ \E i, j \in Invocations :
         /\ i # j
         /\ \E k \in 1..Len(queue) : queue[k].owner = i
         /\ \E k \in 1..Len(queue) : queue[k].owner = j
         /\ concurrent[i].pending > 1


\* HTTP requests of the streaming client that are in flight: every running
\* job waits for exactly one, be it a send, a re-send or a token refresh
HttpInFlight == Cardinality(Running)

\* C17: no more HTTP requests are sent to the streaming platform within one
\* quota window than the reservoir holds, and no more than maxConcurrent are
\* in flight at once, counting the re-send after a 401 and the token-refresh
\* call.
C17_QuotaCountsEveryRequest ==
    /\ spotify.window <= ReservoirSize
    /\ HttpInFlight <= MaxConcurrent

-----------------------------------------------------------------------------
(* Startup: the streaming tools are registered only with a streaming client *)

Credentials ==
    {"SPOTIFY_CLIENT_ID", "SPOTIFY_CLIENT_SECRET", "SPOTIFY_ACCESS_TOKEN",
     "SPOTIFY_REFRESH_TOKEN"}

CreateSpotifyClientFromAny(env) == env \cap Credentials # {}

\* createSpotifyClient(): null unless all four variables are set and non-empty
CreateSpotifyClient(env) == Credentials \subseteq env

\* The tools main() registers
RegisteredTools(spotifyClient) ==
    AnalyticsTools \cup (IF spotifyClient THEN StreamingTools ELSE {})

\* main(): env is the set of streaming variables that are set; the analytics
\* variables are set, otherwise the process exits before any registration.
StartServer(env) ==
    /\ ~server.started
    /\ server' = [started |-> TRUE, env |-> env,
                  spotifyClient |-> CreateSpotifyClient(env),
                  tools |-> RegisteredTools(CreateSpotifyClient(env))]
    /\ UNCHANGED <<pc, tool, input, step, queue, inflight, sent, replies, outcome,
                   result, thrown, failure, spotify, calls, concurrent>>

\* Only a registered tool can be invoked
NextStartup ==
    \/ \E env \in SUBSET Credentials : StartServer(env)
    \/ \E t \in server.tools \cap AnalyticsTools : SchemaReject(t)
    \/ server.tools \cap StreamingTools # {} /\ StreamingCall

SpecStartup == Init /\ [][NextStartup]_vars

AllTools == AnalyticsTools \cup StreamingTools

\* No HTTP request of the streaming client was sent or scheduled
NoStreamingRequest ==
    /\ spotify = NewSpotifyClient
    /\ \A c \in CallIds : calls[c] = NoCall

\* C18: when any of the four streaming credentials is missing at startup, none
\* of the 10 streaming tools is registered, the 18 analytics tools are, and no
\* streaming-platform request is ever attempted; with all four the server has
\* 28 tools.
C18_StreamingOptional ==
    server.started =>
      IF server.env = Credentials
      THEN server.tools = AllTools /\ Cardinality(server.tools) = 28
      ELSE /\ server.tools \cap StreamingTools = {}
           /\ AnalyticsTools \subseteq server.tools
           /\ Cardinality(server.tools) = 18
           /\ NoStreamingRequest

\* The server started with three of the four credentials and an analytics
\* tool has been invoked and answered.
C18_Witness ==
    /\ server.started
    /\ Cardinality(server.env) = 3
    /\ pc = "done"

-----------------------------------------------------------------------------
(* Operations the public token cannot perform                              *)

NextUnsupported ==
    \/ NextPeriod
    \/ \E t \in WriteTools : UnsupportedInvoke(t)

SpecUnsupported == Init /\ [][NextUnsupported]_vars

\* The invocation asks for an operation that is not supported
UnsupportedAsked ==
    \/ tool \in WriteTools
    \/ tool = "analyze_listening_patterns" /\ input.pattern_type = "day_and_time"

UnsupportedTexts ==
    {"day_and_time pattern requires combining hour and day data. Try hour_of_day or day_of_week separately.",
     "Settings updates require authenticated session. Public token access is read-only.",
     "Public token revocation requires an authenticated web session. Visit Your Spotify settings to revoke access.",
     "Account rename requires an authenticated web session. Visit Your Spotify settings to change your username."}

NoAnalyticsRequest == queue = <<>> /\ inflight = <<>> /\ sent = <<>>

-----------------------------------------------------------------------------
(* get_track_stats / get_artist_stats and the ids of the four id tools      *)

StatsTools == {"get_track_stats", "get_artist_stats"}

IdTools == StatsTools \cup RankTools

IdLength == 22
ArtistEstimateMs == 210000

\* Characters ids are written with: two alphanumeric ones and one that is not
Alphanumeric == {"a", "7"}

\* /^[a-zA-Z0-9]{22}$/.test(id)
IsValidId(id) ==
    Len(id) = IdLength /\ \A i \in 1..Len(id) : id[i] \in Alphanumeric

StatsUriPrefix(t) ==
    IF t = "get_artist_stats" THEN "spotify:artist:" ELSE "spotify:track:"

StatsPath(t) == IF t = "get_artist_stats" THEN "/artist/:id/stats" ELSE "/track/:id/stats"

\* total_plays and the estimated duration of getTrackStats / getArtistStats
StatsResult(t, id, rawData) ==
    LET plays == OrZero(rawData.count)
    IN  [ id |-> OrDefault(rawData.id, id),
          uri |-> IF t = "get_track_stats" THEN TrackUri(id) ELSE Undefined,
          name |-> OrDefault(rawData.name, "Unknown"),
          total_plays |-> plays,
          total_duration_ms |->
              IF t = "get_artist_stats" THEN plays * ArtistEstimateMs
              ELSE plays * (IF Truthy(rawData.duration_ms)
                            THEN rawData.duration_ms[1] ELSE PlayEstimateMs) ]

\* handleGetTrackStats / handleGetArtistStats: strip the URI prefix, test the
\* id, then ask the service
StatsInvoke(t, rawId) ==
    /\ pc = "idle"
    /\ LET id == StripUriPrefix(rawId, StatsUriPrefix(t))
       IN  /\ tool' = t
           /\ input' = [id |-> id]
           /\ IF ~IsValidId(id)
              THEN /\ Fail
                   /\ UNCHANGED <<queue, step>>
              ELSE /\ pc' = "await"
                   /\ step' = 1
                   /\ queue' = Schedule(queue, <<Request(StatsPath(t), [id |-> id], 1)>>)
                   /\ UNCHANGED <<outcome, result, thrown, failure>>
    /\ UNCHANGED <<server, spotify, calls, concurrent, inflight, sent, replies>>

StatsReply(ok, rawData) ==
    /\ pc = "await"
    /\ tool \in StatsTools
    /\ inflight # <<>>
    /\ inflight' = <<>>
    /\ IF ~ok
       THEN UpstreamFail
       ELSE Succeed(StatsResult(tool, input.id, rawData))
    /\ UNCHANGED <<server, spotify, calls, concurrent, tool, input, step, queue, sent, replies>>


\* Ids given to the id tools: a well-formed one, one too short, one too long,
\* one with a character that is not alphanumeric, and each behind the prefix
BareIds ==
    {[i \in 1..IdLength |-> "a"],
     [i \in 1..IdLength |-> IF i = 1 THEN "7" ELSE "a"],
     [i \in 1..(IdLength - 1) |-> "a"],
     [i \in 1..(IdLength + 1) |-> "a"],
     [i \in 1..IdLength |-> IF i = IdLength THEN "-" ELSE "a"]}

IdPrefix(t) == IF t \in StatsTools THEN StatsUriPrefix(t) ELSE UriPrefix(t)

IdInputs(t) == BareIds \cup {<<IdPrefix(t)>> \o id : id \in BareIds}

StatsRawPayloads ==
    [id : {Undefined}, name : Opt({"N"}), count : Opt({0, MaxCount}),
     duration_ms : Opt({0, 1})]

IdRankPayloads ==
    {[index |-> Some(0), results |-> Undefined],
     [index |-> Undefined, results |-> Some(Window(1, 1))]} \cup StatsPayloads

NextIds ==
    \/ \E t \in StatsTools : \E id \in IdInputs(t) : StatsInvoke(t, id)
    \/ \E t \in RankTools : \E id \in IdInputs(t) : RankInvoke(t, id, Undefined, Undefined)
    \/ LimiterDispatch
    \/ \E ok \in BOOLEAN, data \in StatsRawPayloads : StatsReply(ok, data)
    \/ \E ok \in BOOLEAN, data \in IdRankPayloads : RankReply(ok, data)

SpecIds == Init /\ [][NextIds]_vars

\* C20: every operation that takes a track or artist id (track stats, artist
\* stats, artist rank, track rank) strips the URI prefix and rejects an id
\* that is not exactly 22 alphanumeric characters before any upstream request.
C20_IdCheckedBeforeRequest ==
    (tool \in IdTools /\ ~IsValidId(input.id)) =>
      /\ outcome = "error"
      /\ NoAnalyticsRequest

-----------------------------------------------------------------------------
(* Upstream failures and what the operations make of them                  *)

NextFailures ==
    \/ NextBoundary
    \/ PlaybackRequest(1)

SpecFailures == Init /\ [][NextFailures]_vars

\* The replies that carried a failure, for the operations that log them
FailedReplies == {i \in 1..Len(replies) : ~replies[i].ok}

\* C21: an upstream failure inside an operation always reaches the tool
\* boundary as a failure; only the failure of the artist-search call of
\* SearchHistory is absorbed. No operation that ended in success had another
\* upstream request fail, in either client.
C21_FailuresSurface ==
    /\ (pc = "done" /\ outcome = "success" /\ tool \in SearchTools) =>
         \A i \in FailedReplies : replies[i].step = 1
    /\ (pc = "done" /\ outcome = "success" /\ tool \in JoinTools) =>
         FailedReplies = {}
    /\ \A c \in CallIds : calls[c].threw => calls[c].outcome = "error"


\* Two requests ask the upstream for the same thing
SameRequest(a, b) == a.ep = b.ep /\ a.params = b.params

\* C22: no analytics operation retries: once a request of a search invocation
\* has failed, no request sent later in that invocation asks the same endpoint
\* with the same parameters (the i-th reply answers the i-th request sent).
C22_NoRetry ==
    tool \in SearchTools =>
      \A i \in FailedReplies :
        \A j \in (i + 1)..Len(sent) : ~SameRequest(sent[i], sent[j])

-----------------------------------------------------------------------------
(* Specification of the Wrapped patterns                                   *)

\* time_per items with timeSplit hour: _id.hour and a duration
HourItems ==
    [count : {Some(0), Some(5400000)}, hour : {Some(0), Some(13)}]

\* time_per items with timeSplit day: _id's year, month, day and a duration
DayItems ==
    [count : {Some(0), Some(5400000)}, date : {Some(Earlier), Some(Later)}]

PatternPayloadsInFlight ==
    IF inflight = <<>> THEN {}
    ELSE IF inflight[1].ep # "/spotify/time_per" THEN {<<>>}
    ELSE IF inflight[1].params.timeSplit = "hour" THEN SeqsUpTo(HourItems, 2)
    ELSE SeqsUpTo(DayItems, 2)

NextPatterns ==
    \/ WrappedInvoke(Earlier, Later)
    \/ LimiterDispatch
    \/ \E ok \in BOOLEAN : \E data \in PatternPayloadsInFlight : JoinReply(ok, data)
    \/ LateReply

SpecPatterns == Init /\ [][NextPatterns]_vars

AllZero(hist) == \A i \in DOMAIN hist : hist[i] = 0

WrappedDone == tool = "create_custom_wrapped" /\ pc = "done" /\ outcome = "success"

\* C23: in a Wrapped report, peak hour, peak day and most-active date each
\* name the bucket with the largest value of their histogram, and each is
\* "Unknown" whenever every bucket of its histogram is zero.
C23_PeaksOrUnknown ==
    WrappedDone =>
        LET byHour == ListeningByHour(replies[4].data)
            byDay == ListeningByDay(replies[5].data)
            hours == {h \in DOMAIN byHour : \A j \in DOMAIN byHour : byHour[j] <= byHour[h]}
            days == {d \in DOMAIN byDay : \A j \in DOMAIN byDay : byDay[j] <= byDay[d]}
        IN  /\ IF AllZero(byHour) THEN result.patterns.peak_hour = UnknownLabel
               ELSE \E h \in hours : result.patterns.peak_hour = HourLabel(h - 1)
            /\ IF AllZero(byDay) THEN result.patterns.peak_day_of_week = UnknownLabel
               ELSE \E d \in days : result.patterns.peak_day_of_week = <<DayNames[d]>>
            /\ IF AllZero(byDay) THEN result.patterns.most_active_date = UnknownLabel
               ELSE \E d \in days : result.patterns.most_active_date = <<DayNames[d]>>

-----------------------------------------------------------------------------
(* Specification of the track records                                      *)

\* Top-songs items whose track id comes under either key, or under none
TrackItems ==
    [ id : Opt({"t"}), _id : Opt({"u"}), count : {Some(1)},
      total_count : {Some(1)}, name : {Undefined},
      artist_id : {Undefined}, artist_name : {Undefined} ]

TrackPayloads == SeqsUpTo(TrackItems, 1)

ValidTrackId == [i \in 1..IdLength |-> "a"]

NextTracks ==
    \/ \E limit \in 1..MaxLimit : TopInvoke("get_top_tracks", Undefined, Undefined, limit)
    \/ StatsInvoke("get_track_stats", ValidTrackId)
    \/ WrappedInvoke(Earlier, Later)
    \/ LimiterDispatch
    \/ \E ok \in BOOLEAN, rawData \in TrackPayloads : TopReply(ok, rawData)
    \/ \E ok \in BOOLEAN, data \in StatsRawPayloads : StatsReply(ok, data)
    \/ \E ok \in BOOLEAN :
           \E data \in JoinPayloadsInFlight(TrackPayloads, JoinTimePayloads) :
               JoinReply(ok, data)
    \/ LateReply

SpecTracks == Init /\ [][NextTracks]_vars

\* C24: every Track record an operation produces has uri = the track-URI
\* prefix followed by that record's id, whether the id came from the
\* upstream key id or from the key _id.
C24_UriFromId ==
    (pc = "done" /\ outcome = "success") =>
        /\ tool = "get_top_tracks" =>
             \A i \in 1..Len(result.items) :
                 result.items[i].uri = TrackUri(result.items[i].id)
        /\ tool = "get_track_stats" => result.uri = TrackUri(result.id)
        /\ tool = "create_custom_wrapped" =>
             \A i \in 1..Len(result.track_records) :
                 result.track_records[i].uri = TrackUri(result.track_records[i].id)

-----------------------------------------------------------------------------
(* Specification of export_listening_data                                  *)

\* Names over a letter and the three characters csv gives a meaning to
CsvNames == SeqsUpTo({"a", "\"", ",", "\n"}, 2)

ExportItems ==
    [ count : {Some(1)}, total_count : {Some(1)},
      name : Opt(CsvNames), artist_name : {Undefined, Some(<<"\"", "a">>)} ]

ExportListPayloads == SeqsUpTo(ExportItems, 1)

\* input.include: absent, or a selection of the schema's four kinds
IncludeSelections ==
    {Undefined, Some({}), Some({"tracks", "artists"}), Some({"albums", "history"})}

ExportFormats == {"summary", "csv", "json"}

NextExport ==
    \/ \E format \in ExportFormats, include \in IncludeSelections :
           ExportInvoke(Undefined, Undefined, format, include, 1)
    \/ LimiterDispatch
    \/ \E ok \in BOOLEAN :
           \E data \in JoinPayloadsInFlight(ExportListPayloads, JoinTimePayloads) :
               JoinReply(ok, data)
    \/ LateReply

SpecExport == Init /\ [][NextExport]_vars

ExportDone == tool = "export_listening_data" /\ pc = "done" /\ outcome = "success"

\* C25: an Export result in summary shape carries no raw track or artist
\* records in its data payload, whatever include selection was given and
\* whatever the upstream sent.
C25_SummaryHasNoRecords ==
    (ExportDone /\ result.format = "summary") => DOMAIN result.data = {"kind"}

C25_Witness ==
    /\ ExportDone
    /\ result.format = "summary"
    /\ input.include = Some({"tracks", "artists"})
    /\ replies[1].data # <<>>
    /\ replies[2].data # <<>>

\* A csv reader after RFC 4180: a field that opens with a quote runs to the
\* next quote that is not doubled, and a doubled quote inside it is one quote
CloseField(rows, field) == [rows EXCEPT ![Len(rows)] = Append(@, field)]

RECURSIVE ParseCsvFrom(_, _, _, _)
ParseCsvFrom(text, quoted, field, rows) ==
    IF text = <<>> THEN CloseField(rows, field)
    ELSE LET c == text[1]
             rest == Tail(text)
         IN  IF quoted
             THEN IF c = "\""
                  THEN IF rest # <<>> /\ rest[1] = "\""
                       THEN ParseCsvFrom(Tail(rest), TRUE, Append(field, "\""), rows)
                       ELSE ParseCsvFrom(rest, FALSE, field, rows)
                  ELSE ParseCsvFrom(rest, TRUE, Append(field, c), rows)
             ELSE IF c = "\"" /\ field = <<>>
                  THEN ParseCsvFrom(rest, TRUE, field, rows)
             ELSE IF c = ","
                  THEN ParseCsvFrom(rest, FALSE, <<>>, CloseField(rows, field))
             ELSE IF c = "\n"
                  THEN ParseCsvFrom(rest, FALSE, <<>>, Append(CloseField(rows, field), <<>>))
             ELSE ParseCsvFrom(rest, FALSE, Append(field, c), rows)

ParseCsv(text) == ParseCsvFrom(text, FALSE, <<>>, <<<<>>>>)

\* The names a csv text gives back: one record per item after the header line
NamesRecovered(text, items, columns) ==
    LET parsed == ParseCsv(text)
    IN  /\ Len(parsed) = Len(items) + 1
        /\ \A i \in 1..Len(items) :
               /\ Len(parsed[i + 1]) = columns
               /\ parsed[i + 1][2] = NameOr(items[i].name, <<>>)

HasQuote(opt) == opt # Undefined /\ \E k \in 1..Len(opt[1]) : opt[1][k] = "\""

\* C26: in csv shape every exported track or artist name, with or without
\* double quotes in it, is written so that a csv reader gets the original
\* name back.
C26_CsvRoundTrip ==
    (ExportDone /\ result.format = "csv") =>
        LET tracks == replies[1].data
            artists == replies[2].data
        IN  /\ NamesRecovered(result.data.tracks_csv, tracks, 4)
            /\ \A i \in 1..Len(tracks) :
                   ParseCsv(result.data.tracks_csv)[i + 1][3]
                       = NameOr(tracks[i].artist_name, <<>>)
            /\ NamesRecovered(result.data.artists_csv, artists, 3)

C26_Witness ==
    /\ ExportDone
    /\ result.format = "csv"
    /\ replies[1].data # <<>>
    /\ HasQuote(replies[1].data[1].name)
    /\ HasQuote(replies[1].data[1].artist_name)
    /\ replies[2].data # <<>>
    /\ HasQuote(replies[2].data[1].name)

-----------------------------------------------------------------------------
(* Token refreshes of concurrent streaming requests                        *)

\* The calls whose refreshAccessToken has posted to the token endpoint and
\* awaits the answer: before the first send (auth) or after a 401 (refresh)
Refreshing == {c \in CallIds : calls[c].pc \in {"auth", "refresh"}}

\* C27: token refreshes never overlap: at any moment at most one refresh
\* request is outstanding, also when several concurrent requests get a 401
\* or find the token near its expiry together.
C27_OneRefreshAtATime == Cardinality(Refreshing) <= 1

-----------------------------------------------------------------------------
(* Sub-fetches that outlive the invocation                                 *)

NothingPending == queue = <<>> /\ inflight = <<>>

\* C28 as stated: once an invocation has returned its response, none of its
\* upstream requests is still queued or in flight, so none is sent
\* afterwards; this includes the sub-fetches left after one of them failed.
C28_NothingAfterReturn == pc = "done" => NothingPending

\* One step seen from a returned invocation
ReturnedStep ==
    /\ (pc' = "done" /\ outcome' = "success") => (queue' = <<>> /\ inflight' = <<>>)
    /\ pc = "done" =>
         /\ outcome' = outcome /\ result' = result /\ failure' = failure
         /\ replies' = replies
         /\ Len(queue') <= Len(queue)

\* C28 (amended): once an invocation has returned a successful response,
\* none of its upstream requests is still queued or in flight.  After one
\* parallel sub-fetch of Wrapped, Compare or Export fails, the invocation
\* returns its failure at once; the sub-fetches still queued are sent all
\* the same, and their answers change nothing in the response returned.
C28_ReturnedResponseFinal == [][ReturnedStep]_vars

C28_Witness ==
    /\ tool = "create_custom_wrapped"
    /\ pc = "done"
    /\ outcome = "error"
    /\ Len(replies) = 1
    /\ Len(sent) = Len(WrappedRequests(input))
    /\ NothingPending

-----------------------------------------------------------------------------
(* queue_tracks: one post per track, each awaited before the next          *)

QueueUris == {"spotify:track:A", "spotify:track:B"}

\* track_uris: the schema takes a list of at least one valid track URI
QueueInputs == SeqsUpTo(QueueUris, MaxCalls) \ {<<>>}

\* client.post(`/me/player/queue?uri=...`) joins the streaming limiter
PostQueue(cs, c, uri) ==
    [cs EXCEPT ![c].pc = "queued", ![c].handler = "queue_tracks", ![c].uri = uri]

\* Variant: a failed post is skipped and the loop goes on
QueueAfterSkipping(call, k, n) ==
    IF k < n THEN "next" ELSE "return"

\* The loop after the k-th of n awaited posts settled: a rejection leaves the
\* handler, otherwise queued++ and the next URI, or the return after the last
QueueAfter(call, k, n) ==
    IF call.threw THEN "throw"
    ELSE IF k < n THEN "next" ELSE "return"

\* handleQueueTracks is called: the loop posts the first URI and awaits it
QueueInvoke(uris) ==
    /\ pc = "idle"
    /\ \A c \in CallIds : calls[c].pc = "none"
    /\ tool' = "queue_tracks"
    /\ input' = [track_uris |-> uris]
    /\ pc' = "await"
    /\ step' = 1
    /\ calls' = PostQueue(calls, 1, uris[1])
    /\ spotify' = [spotify EXCEPT !.queued = Append(@, 1)]
    /\ UNCHANGED <<server, concurrent, queue, inflight, sent, replies, outcome, result, thrown, failure>>

\* The awaited post settled and the handler goes on; step is the number of
\* the post awaited, which is queued + 1 while it is pending
QueueStep ==
    /\ pc = "await"
    /\ tool = "queue_tracks"
    /\ calls[step].pc = "done"
    /\ LET after == QueueAfter(calls[step], step, Len(input.track_uris))
       IN  IF after = "throw"
           THEN /\ Throw(calls[step].raised)
                /\ UNCHANGED <<step, calls, spotify>>
           ELSE IF after = "next"
           THEN /\ step' = step + 1
                /\ calls' = PostQueue(calls, step + 1, input.track_uris[step + 1])
                /\ spotify' = [spotify EXCEPT !.queued = Append(@, step + 1)]
                /\ UNCHANGED <<pc, outcome, result, thrown, failure>>
           ELSE /\ Succeed([success |-> TRUE, tracks_queued |-> step])
                /\ UNCHANGED <<step, calls, spotify>>
    /\ UNCHANGED <<server, concurrent, tool, input, queue, inflight, sent, replies>>

NextQueue ==
    \/ \E uris \in QueueInputs : QueueInvoke(uris)
    \/ QueueStep
    \/ SpotifyJobStart
    \/ \E c \in CallIds, ok \in BOOLEAN, withRefresh \in BOOLEAN :
         AuthRefreshReply(c, ok, withRefresh)
    \/ \E c \in CallIds, status \in ResponseStatuses : FirstReply(c, status)
    \/ \E c \in CallIds, ok \in BOOLEAN, withRefresh \in BOOLEAN :
         RefreshReply(c, ok, withRefresh)
    \/ \E c \in CallIds, status \in ResponseStatuses : ResendReply(c, status)
    \/ ReservoirRefresh
    \/ TokenNearsExpiry

SpecQueue == Init /\ [][NextQueue]_vars

\* The platform took the track of post c: the post ended without a failure
TrackQueued(c) == calls[c].pc = "done" /\ ~calls[c].threw

PostAttempted(c) == calls[c].pc # "none"

\* C29: queue_tracks makes one post per URI in input order, each only after
\* the previous one succeeded; when the k-th post fails the invocation
\* reports failure with exactly the first k-1 tracks queued and no later one
\* attempted; on success tracks_queued is the number of input URIs.
C29_QueueInOrder ==
    tool = "queue_tracks" =>
        LET uris == input.track_uris
            n == Len(uris)
        IN  /\ \A c \in CallIds : PostAttempted(c) =>
                   /\ c <= n
                   /\ calls[c].uri = uris[c]
                   /\ c > 1 => TrackQueued(c - 1)
            /\ (pc = "done" /\ outcome = "error") =>
                   \E k \in 1..n :
                       /\ calls[k].threw
                       /\ \A j \in 1..(k - 1) : TrackQueued(j)
                       /\ \A j \in CallIds : j > k => ~PostAttempted(j)
            /\ (pc = "done" /\ outcome = "success") =>
                   /\ \A c \in 1..n : TrackQueued(c)
                   /\ result.tracks_queued = n
            /\ pc = "done" => \A c \in CallIds : calls[c].pc \in {"none", "done"}

C29_Witness ==
    /\ tool = "queue_tracks"
    /\ pc = "done"
    /\ outcome = "error"
    /\ Len(input.track_uris) > 1
    /\ TrackQueued(1)
    /\ calls[2].threw

-----------------------------------------------------------------------------
(* Percentages of analyze_listening_patterns                               *)

\* C30: in every analyze_listening_patterns result each bucket's percentage
\* is a finite integer from 0 to 100, also when the plays of all buckets
\* add up to zero.
C30_PercentageFinite ==
    (tool = "analyze_listening_patterns" /\ pc = "done" /\ outcome = "success") =>
        \A i \in 1..Len(result.patterns) :
            /\ result.patterns[i].percentage.kind = "finite"
            /\ result.patterns[i].percentage.value \in 0..100

=============================================================================
